---- MODULE Spec2Model ----
(***************************************************************************)
(* A model of the capture-analysis pipeline of pcap-sip-vision:            *)
(*   supabase/functions/_shared/pcap-parser.ts   (decoders, metrics)       *)
(*   supabase/functions/analyze-pcap/index.ts    (job loop, correlation)   *)
(*                                                                         *)
(* Numbers.  JavaScript numbers are IEEE doubles; every integer the code   *)
(* handles in the modelled runs is far below 2^53, so integer arithmetic   *)
(* is exact and is modelled by TLA+ integers.  The 32-bit bitwise          *)
(* operators (<<, |, &) are modelled with their ToInt32 wrap.  Fractional  *)
(* quantities (jitter in ms, the R-factor, the MOS) are kept as scaled     *)
(* integers; the scale of each is stated where it is defined.              *)
(***************************************************************************)
EXTENDS Integers, Sequences, FiniteSets, TLC

VARIABLES
    pc,             \* where the modelled run stands
    rtpPackets,     \* calculateMetrics: its argument
    metrics,        \* calculateMetrics: its result (NoMetrics before the call)
    udpPayload,     \* the decoders: the UDP payload bytes handed to them
    decoded,        \* the decoders: the record they return (NoRecord before)
    capture,        \* parsePcapFile: how its buffer was written (frames, byte
                    \* order, where it was cut); read by the claims only
    pcapBytes,      \* parsePcapFile: its argument
    reader,         \* parsePcapFile: offset, littleEndian, rtpPackets,
                    \* sipMessages, and the frames the loop has visited
    pcapFiles,      \* the job: its files, each with the outcome of its
                    \* download and the bytes a download yields
    fileIdx,        \* the job: 1-based position of the per-file loop
    allRtpPackets,  \* the job: Map ssrc -> packets, in insertion order
    allSipMessages, \* the job: the messages of all files
    callMap,        \* the job: Map callId -> call data, in insertion order
    streamIdx,      \* the job: 1-based position of the matching loop
    callIdx,        \* the job: 1-based position of the loop over the calls
    call_metrics,   \* the job: the rows of table call_metrics, in insertion
                    \* order; a row's id is its position
    intervalMetricsToInsert,  \* the job: the interval rows collected
    audioFiles,     \* the job: the objects put into bucket audio-files
    metricsCalls,   \* the job: how many packets each call of
                    \* calculateMetrics was handed, in call order
    audioLog,       \* the job: the audio steps taken for each row, in
                    \* the order of execution
    mulawByte,      \* mulawToPcm: its argument
    pcmSample       \* mulawToPcm: its result (<<>> before the call)

metricsVars == <<rtpPackets, metrics>>
decodeVars == <<udpPayload, decoded>>
pcapVars == <<capture, pcapBytes, reader>>
jobVars ==
    <<pcapFiles, fileIdx, allRtpPackets, allSipMessages, callMap, streamIdx,
      callIdx, call_metrics, intervalMetricsToInsert, audioFiles, metricsCalls,
      audioLog>>
processVars ==
    <<callIdx, call_metrics, intervalMetricsToInsert, audioFiles, metricsCalls,
      audioLog>>
mulawVars == <<mulawByte, pcmSample>>
vars == <<pc, metricsVars, decodeVars, pcapVars, jobVars, mulawVars>>

(***************************************************************************)
(* Bounds of the model.                                                    *)
(***************************************************************************)
MaxPackets == 3        \* longest packet list handed to calculateMetrics
MaxPieces == 4         \* most text pieces a signaling payload is built from
MaxFrames == 2         \* most frame records written into a capture buffer
MaxFiles == 2          \* most files of one analysis job

(***************************************************************************)
(* JavaScript arithmetic helpers.                                          *)
(***************************************************************************)
\* a % b of JavaScript for b > 0: the result takes the sign of the dividend.
JsRem(a, b) == IF a >= 0 THEN a % b ELSE -((-a) % b)

Abs(x) == IF x < 0 THEN -x ELSE x

Min(a, b) == IF a <= b THEN a ELSE b

Max(a, b) == IF a >= b THEN a ELSE b

RECURSIVE SumSeq(_)
SumSeq(s) == IF s = <<>> THEN 0 ELSE Head(s) + SumSeq(Tail(s))

RECURSIVE MaxSeq(_)
MaxSeq(s) == IF Len(s) = 1 THEN s[1] ELSE Max(Head(s), MaxSeq(Tail(s)))

(***************************************************************************)
(* Array.prototype.sort as the runtime of the edge functions (Deno, V8)    *)
(* performs it on arrays shorter than 64 elements: one call of             *)
(* CountAndMakeRun on the whole array, then BinaryInsertionSort of the     *)
(* remaining elements.  cmp[i][j] is comparefn(a[i], a[j]) for the input   *)
(* array a; the result is the permutation of input positions.  With a      *)
(* consistent comparator this is a stable sort; with an inconsistent one   *)
(* it is what the engine returns.                                          *)
(***************************************************************************)
RECURSIVE RunEnd(_, _, _, _)
RunEnd(cmp, n, idx, desc) ==
    IF idx > n THEN n
    ELSE LET order == cmp[idx][idx - 1] IN
         IF (desc /\ order >= 0) \/ (~desc /\ order < 0)
         THEN idx - 1
         ELSE RunEnd(cmp, n, idx + 1, desc)

Reverse(s) == [i \in 1..Len(s) |-> s[Len(s) + 1 - i]]

RECURSIVE BinarySearch(_, _, _, _, _)
BinarySearch(cmp, work, pivot, left, right) ==
    IF left >= right THEN left
    ELSE LET mid == left + ((right - left) \div 2)
             order == cmp[pivot][work[mid]]
         IN IF order < 0
            THEN BinarySearch(cmp, work, pivot, left, mid)
            ELSE BinarySearch(cmp, work, pivot, mid + 1, right)

RECURSIVE BinaryInsertionSort(_, _, _)
BinaryInsertionSort(cmp, work, start) ==
    IF start > Len(work) THEN work
    ELSE LET pivot == work[start]
             left  == BinarySearch(cmp, work, pivot, 1, start)
             moved == SubSeq(work, 1, left - 1) \o <<pivot>>
                      \o SubSeq(work, left, start - 1)
                      \o SubSeq(work, start + 1, Len(work))
         IN BinaryInsertionSort(cmp, moved, start + 1)

\* The permutation Array.prototype.sort produces for n elements.
SortPerm(cmp, n) ==
    IF n < 2 THEN [i \in 1..n |-> i]
    ELSE LET desc == cmp[2][1] < 0
             run  == RunEnd(cmp, n, 3, desc)
             ids  == [i \in 1..n |-> i]
             made == (IF desc THEN Reverse(SubSeq(ids, 1, run))
                              ELSE SubSeq(ids, 1, run))
                     \o SubSeq(ids, run + 1, n)
         IN BinaryInsertionSort(cmp, made, run + 1)

(***************************************************************************)
(* Text.  A string is the sequence of its UTF-16 code units; a string      *)
(* literal of the source is written as the tuple of its codes.             *)
(***************************************************************************)
WhiteSpace == {9, 10, 11, 12, 13, 32, 160, 5760, 8232, 8233, 8239, 8287, 12288, 65279}
                \cup 8192..8202                 \* \s of a RegExp, and trim()
LineTerminators == {10, 13, 8232, 8233}         \* what "." does not match
UpperCase == 65..90                             \* [A-Z]
Digits == 48..57                                \* \d

StartsWith(text, prefix) ==
    Len(text) >= Len(prefix) /\ SubSeq(text, 1, Len(prefix)) = prefix

\* String.prototype.indexOf: the 0-based index of the first occurrence, or -1.
IndexOf(text, piece) ==
    LET at == { i \in 0..(Len(text) - Len(piece)) :
                    SubSeq(text, i + 1, i + Len(piece)) = piece }
    IN IF at = {} THEN -1 ELSE CHOOSE i \in at : \A k \in at : i <= k

Includes(text, piece) == IndexOf(text, piece) # -1

\* text.slice(from) for 0 <= from.
Slice(text, from) == SubSeq(text, from + 1, Len(text))

\* How many consecutive characters from 1-based position p on are in set S.
RECURSIVE RunLen(_, _, _)
RunLen(text, p, S) ==
    IF p > Len(text) \/ text[p] \notin S THEN 0 ELSE 1 + RunLen(text, p + 1, S)

\* How many consecutive characters from 1-based position p on "." matches.
RECURSIVE DotRunLen(_, _)
DotRunLen(text, p) ==
    IF p > Len(text) \/ text[p] \in LineTerminators THEN 0 ELSE 1 + DotRunLen(text, p + 1)

RECURSIVE TrimEnd(_)
TrimEnd(text) ==
    IF text # <<>> /\ text[Len(text)] \in WhiteSpace
    THEN TrimEnd(SubSeq(text, 1, Len(text) - 1))
    ELSE text

Trim(text) == TrimEnd(SubSeq(text, RunLen(text, 1, WhiteSpace) + 1, Len(text)))

LowerCase(text) ==
    [i \in 1..Len(text) |-> IF text[i] \in UpperCase THEN text[i] + 32 ELSE text[i]]

\* parseInt of a run of decimal digits.
RECURSIVE ParseInt(_)
ParseInt(digits) ==
    IF digits = <<>> THEN 0
    ELSE 10 * ParseInt(SubSeq(digits, 1, Len(digits) - 1)) + (digits[Len(digits)] - 48)

\* An optional value: undefined, or the value.
Undefined == <<>>
Some(x) == <<x>>

\* TextDecoder('utf-8', {fatal: false}).decode on payloads made of ASCII bytes
\* and bytes that can start no UTF-8 sequence (0x80..0xBF, 0xF8..0xFF), each of
\* which becomes U+FFFD.
DecodeUtf8(bytes) == [i \in 1..Len(bytes) |-> IF bytes[i] < 128 THEN bytes[i] ELSE 65533]

(***************************************************************************)
(* parseRTPPacket (pcap-parser.ts 50-83).                                  *)
(***************************************************************************)
\* b << 24 of JavaScript for a byte b: the 32-bit result is signed.
ShiftLeft24(b) == IF b >= 128 THEN (b - 256) * 16777216 ELSE b * 16777216

\* (p[at] << 24) | (p[at+1] << 16) | (p[at+2] << 8) | p[at+3], 0-based at;
\* the operands of | have no bit in common, so | adds.
ReadInt32(bytes, at) ==
    ShiftLeft24(bytes[at + 1]) + bytes[at + 2] * 65536
        + bytes[at + 3] * 256 + bytes[at + 4]

NoRecord == [kind |-> "none"]

parseRTPPacket(payload, captureTime, sourceIp, sourcePort, destIp, destPort) ==
    IF Len(payload) < 12 THEN NoRecord
    ELSE IF (payload[1] \div 64) % 4 # 2 THEN NoRecord
    ELSE LET csrcCount    == payload[1] % 16
             headerLength == 12 + csrcCount * 4
         IN [ kind           |-> "rtp",
              version        |-> (payload[1] \div 64) % 4,
              padding        |-> (payload[1] \div 32) % 2 # 0,
              extension      |-> (payload[1] \div 16) % 2 # 0,
              csrcCount      |-> csrcCount,
              marker         |-> (payload[2] \div 128) % 2 # 0,
              payloadType    |-> payload[2] % 128,
              sequenceNumber |-> payload[3] * 256 + payload[4],
              timestamp      |-> ReadInt32(payload, 4),
              ssrc           |-> ReadInt32(payload, 8),
              payload        |-> Slice(payload, headerLength),
              captureTime    |-> captureTime,
              sourceIp       |-> sourceIp,
              sourcePort     |-> sourcePort,
              destIp         |-> destIp,
              destPort       |-> destPort ]

(***************************************************************************)
(* parseSIPMessage (pcap-parser.ts 85-127).                                *)
(***************************************************************************)
SIP20 == <<83, 73, 80, 47, 50, 46, 48>>                 \* "SIP/2.0"
CallIdKey == <<99, 97, 108, 108, 45, 105, 100, 58>>     \* "call-id:"
UnknownCallId == <<117, 110, 107, 110, 111, 119, 110>>  \* "unknown"
SdpMarker == <<118, 61, 48>>                            \* "v=0"
CRLFCRLF == <<13, 10, 13, 10>>
LFLF == <<10, 10>>

\* The end /(?:\r?\n|$)/ of the Call-ID pattern at 1-based position q.
LineEndsAt(text, q) ==
    \/ q = Len(text) + 1
    \/ q <= Len(text) /\ text[q] = 10
    \/ q < Len(text) /\ text[q] = 13 /\ text[q + 1] = 10

\* /Call-ID:\s*(.+?)(?:\r?\n|$)/i tried at 1-based position i: the captured
\* group, or Undefined.  \s* is greedy and gives characters back; (.+?) can
\* only end where the run of non-terminators ends.
CallIdMatchAt(text, i) ==
    IF i + 7 > Len(text) \/ LowerCase(SubSeq(text, i, i + 7)) # CallIdKey
    THEN Undefined
    ELSE LET j    == i + 8
             k    == RunLen(text, j, WhiteSpace)
             run(w) == DotRunLen(text, j + w)
             ok   == { w \in 0..k : run(w) >= 1 /\ LineEndsAt(text, j + w + run(w)) }
         IN IF ok = {} THEN Undefined
            ELSE LET w == CHOOSE x \in ok : \A y \in ok : y <= x
                 IN Some(SubSeq(text, j + w, j + w + run(w) - 1))

callIdOf(text) ==
    LET hits == { i \in 1..Len(text) : CallIdMatchAt(text, i) # Undefined }
    IN IF hits = {} THEN UnknownCallId
       ELSE LET i == CHOOSE x \in hits : \A y \in hits : x <= y
            IN Trim(CallIdMatchAt(text, i)[1])

\* text.split(/\r?\n/)[0]
firstLineOf(text) ==
    LET nl == { i \in 1..Len(text) : text[i] = 10 }
    IN IF nl = {} THEN text
       ELSE LET i == CHOOSE x \in nl : \A y \in nl : x <= y
            IN IF i > 1 /\ text[i - 1] = 13
               THEN SubSeq(text, 1, i - 2)
               ELSE SubSeq(text, 1, i - 1)

\* firstLine.match(/^([A-Z]+)\s/): the method, or Undefined.
methodOf(firstLine) ==
    LET run == RunLen(firstLine, 1, UpperCase)
    IN IF run >= 1 /\ run < Len(firstLine) /\ firstLine[run + 1] \in WhiteSpace
       THEN Some(SubSeq(firstLine, 1, run))
       ELSE Undefined

\* firstLine.match(/^SIP\/2\.0\s+(\d+)/) and parseInt: the status code, or
\* Undefined.
statusCodeOf(firstLine) ==
    LET spaces == RunLen(firstLine, 8, WhiteSpace)
        digits == RunLen(firstLine, 8 + spaces, Digits)
    IN IF StartsWith(firstLine, SIP20) /\ spaces >= 1 /\ digits >= 1
       THEN Some(ParseInt(SubSeq(firstLine, 8 + spaces, 7 + spaces + digits)))
       ELSE Undefined

sdpBodyOf(text) ==
    LET blankLineIndex == IF IndexOf(text, CRLFCRLF) # -1
                          THEN IndexOf(text, CRLFCRLF)
                          ELSE IndexOf(text, LFLF)
    IN IF blankLineIndex # -1 /\ StartsWith(Trim(Slice(text, blankLineIndex)), SdpMarker)
       THEN Some(Trim(Slice(text, blankLineIndex)))
       ELSE Undefined

parseSIPMessage(payload, sourceIp, sourcePort, destIp, destPort, timestamp) ==
    LET text      == DecodeUtf8(payload)
        firstLine == firstLineOf(text)
        request   == ~StartsWith(firstLine, SIP20)
    IN IF ~StartsWith(text, SIP20) /\ ~Includes(text, SIP20) THEN NoRecord
       ELSE [ kind       |-> "sip",
              timestamp  |-> timestamp,
              sourceIp   |-> sourceIp,
              sourcePort |-> sourcePort,
              destIp     |-> destIp,
              destPort   |-> destPort,
              method     |-> IF request THEN methodOf(firstLine) ELSE Undefined,
              statusCode |-> IF request THEN Undefined ELSE statusCodeOf(firstLine),
              callId     |-> callIdOf(text),
              content    |-> text,
              sdpBody    |-> sdpBodyOf(text) ]

\* Mutant of decodeUdpPayload: the signaling decoder is tried first.
decodeUdpPayloadSipFirst(payload, captureTime, timestamp, sourceIp, sourcePort, destIp, destPort) ==
    LET sipMessage == parseSIPMessage(payload, sourceIp, sourcePort, destIp, destPort,
                                      timestamp)
    IN IF sipMessage # NoRecord THEN sipMessage
       ELSE parseRTPPacket(payload, captureTime, sourceIp, sourcePort, destIp, destPort)

\* The two decoders as parsePcapFile applies them (lines 365-373).
decodeUdpPayload(payload, captureTime, timestamp, sourceIp, sourcePort, destIp, destPort) ==
    LET rtpPacket == parseRTPPacket(payload, captureTime, sourceIp, sourcePort,
                                    destIp, destPort)
    IN IF rtpPacket # NoRecord THEN rtpPacket
       ELSE parseSIPMessage(payload, sourceIp, sourcePort, destIp, destPort, timestamp)

\* The decoders' variables while another part of the pipeline is modelled.
IdleDecode == udpPayload = <<>> /\ decoded = NoRecord

(***************************************************************************)
(* parsePcapFile (pcap-parser.ts 303-381).                                 *)
(*                                                                         *)
(* A buffer is the sequence of its bytes.  The reader is a record: status  *)
(* "loop" while the frame loop runs, "done" once it has returned, "failed" *)
(* once it has thrown; frames is the list of the frames the loop has read  *)
(* in full (captureTime and packetData of lines 334-335).                  *)
(***************************************************************************)
\* DataView.getUint32 at 0-based offset at.  The buffers of the model keep
\* every 32-bit field below 2^31.
getUint32(bytes, at, littleEndian) ==
    IF littleEndian
    THEN bytes[at + 4] * 16777216 + bytes[at + 3] * 65536
            + bytes[at + 2] * 256 + bytes[at + 1]
    ELSE bytes[at + 1] * 16777216 + bytes[at + 2] * 65536
            + bytes[at + 3] * 256 + bytes[at + 4]

MagicBigEndian == <<161, 178, 195, 212>>        \* 0xa1b2c3d4 read big-endian
MagicLittleEndian == <<212, 195, 178, 161>>     \* 0xd4c3b2a1 read big-endian

\* Mutant of captureTimeOf: seconds scaled to milliseconds.
captureTimeInMillis(ts_sec, ts_usec) == ts_sec * 1000 + ts_usec

\* captureTime (line 335).
captureTimeOf(ts_sec, ts_usec) == ts_sec * 1000000 + ts_usec

\* timestamp (line 336), in milliseconds since the epoch.
timestampOf(ts_sec, ts_usec) == ts_sec * 1000 + ts_usec \div 1000

\* Mutant of frameFits: a frame that ends with the buffer is refused.
frameFitsStrictly(offset, incl_len, length) == offset + incl_len < length

\* The negation of the break condition of line 332.
frameFits(offset, incl_len, length) == ~(offset + incl_len > length)

\* Lines 338-375: the records one frame adds, none or one.
frameRecords(packetData, captureTime, timestamp) ==
    LET incl_len  == Len(packetData)
        etherType == packetData[13] * 256 + packetData[14]
        ipPacket  == Slice(packetData, 14)
        ipVersion == (ipPacket[1] \div 16) % 16
        ipHeaderLen == (ipPacket[1] % 16) * 4
        protocol  == ipPacket[10]
        sourceIp  == SubSeq(ipPacket, 13, 16)
        destIp    == SubSeq(ipPacket, 17, 20)
        udpPacket == Slice(ipPacket, ipHeaderLen)
        sourcePort == udpPacket[1] * 256 + udpPacket[2]
        destPort  == udpPacket[3] * 256 + udpPacket[4]
    IN IF incl_len < 14 THEN NoRecord
       ELSE IF ~(etherType = 2048 /\ incl_len >= 34) THEN NoRecord
       ELSE IF ipVersion # 4 \/ ipHeaderLen < 20 THEN NoRecord
       ELSE IF ~(protocol = 17 /\ Len(ipPacket) >= ipHeaderLen + 8) THEN NoRecord
       ELSE decodeUdpPayload(Slice(udpPacket, 8), captureTime, timestamp,
                             sourceIp, sourcePort, destIp, destPort)

\* A loop that leaves the offset where a short frame's bytes begin.
skipFrameShortStays(offset, incl_len) ==
    IF incl_len < 14 THEN offset ELSE offset + incl_len

\* Lines 339, 353 and 377: `offset += incl_len`, the same on every path that
\* does not leave the loop.
skipFrame(offset, incl_len) == offset + incl_len

\* Lines 307-321: the reader before the first iteration.
readerStart(bytes) ==
    LET magic == SubSeq(bytes, 1, 4)
        begun(le) == [ status |-> "loop", offset |-> 24, littleEndian |-> le,
                       rtpPackets |-> <<>>, sipMessages |-> <<>>, frames |-> <<>> ]
    IN IF Len(bytes) < 4 THEN [begun(FALSE) EXCEPT !.status = "failed"]
       ELSE IF magic = MagicBigEndian THEN begun(FALSE)
       ELSE IF magic = MagicLittleEndian THEN begun(TRUE)
       ELSE [begun(FALSE) EXCEPT !.status = "failed"]

\* Lines 323-378: the loop test and one iteration.
readerStep(bytes, r) ==
    IF ~(r.offset + 16 <= Len(bytes)) THEN [r EXCEPT !.status = "done"]
    ELSE LET ts_sec   == getUint32(bytes, r.offset, r.littleEndian)
             ts_usec  == getUint32(bytes, r.offset + 4, r.littleEndian)
             incl_len == getUint32(bytes, r.offset + 8, r.littleEndian)
             offset   == r.offset + 16
             packetData == SubSeq(bytes, offset + 1, offset + incl_len)
             captureTime == captureTimeOf(ts_sec, ts_usec)
             record   == frameRecords(packetData, captureTime,
                                      timestampOf(ts_sec, ts_usec))
         IN IF ~frameFits(offset, incl_len, Len(bytes))
            THEN [r EXCEPT !.status = "done", !.offset = offset]
            ELSE [r EXCEPT
                    !.offset = skipFrame(offset, incl_len),
                    !.frames = Append(@, [captureTime |-> captureTime,
                                          packetData |-> packetData]),
                    !.rtpPackets = IF record.kind = "rtp" THEN Append(@, record) ELSE @,
                    !.sipMessages = IF record.kind = "sip" THEN Append(@, record) ELSE @]

RECURSIVE readerRun(_, _)
readerRun(bytes, r) ==
    IF r.status = "loop" THEN readerRun(bytes, readerStep(bytes, r)) ELSE r

\* The whole call: status "done" with the records, or "failed".
parsePcapFile(bytes) == readerRun(bytes, readerStart(bytes))

NoReader ==
    [ status |-> "idle", offset |-> 0, littleEndian |-> FALSE,
      rtpPackets |-> <<>>, sipMessages |-> <<>>, frames |-> <<>> ]

\* The reader's variables while another part of the pipeline is modelled.
IdlePcap == capture = <<>> /\ pcapBytes = <<>> /\ reader = NoReader

(***************************************************************************)
(* Writing capture buffers: what a capture tool produces.                  *)
(***************************************************************************)
\* A 32-bit field below 2^31, most significant byte first.
Uint32Bytes(n) ==
    <<n \div 16777216, (n \div 65536) % 256, (n \div 256) % 256, n % 256>>

WriteUint32(n, littleEndian) ==
    IF littleEndian THEN Reverse(Uint32Bytes(n)) ELSE Uint32Bytes(n)

Uint16Bytes(n) == <<n \div 256, n % 256>>

\* The 20 bytes of the global header after the magic: version 2.4, zone 0,
\* sigfigs 0, snaplen 65535, link type 1 (Ethernet).
GlobalHeaderRest(le) ==
    (IF le THEN <<2, 0, 4, 0>> ELSE <<0, 2, 0, 4>>)
        \o WriteUint32(0, le) \o WriteUint32(0, le)
        \o WriteUint32(65535, le) \o WriteUint32(1, le)

FrameRecord(f, le) ==
    WriteUint32(f.sec, le) \o WriteUint32(f.usec, le)
        \o WriteUint32(Len(f.data), le) \o WriteUint32(Len(f.data), le) \o f.data

RECURSIVE FrameRecords(_, _)
FrameRecords(frames, le) ==
    IF frames = <<>> THEN <<>>
    ELSE FrameRecord(Head(frames), le) \o FrameRecords(Tail(frames), le)

\* order is "big", "little", or "other" (a magic number of neither order).
WriteCapture(order, frames) ==
    LET le == order = "little"
    IN (IF order = "big" THEN MagicBigEndian
        ELSE IF order = "little" THEN MagicLittleEndian
        ELSE <<10, 13, 13, 10>>)
       \o GlobalHeaderRest(le) \o FrameRecords(frames, le)

EthernetHeader(etherType) ==
    <<2, 0, 0, 0, 0, 2,  2, 0, 0, 0, 0, 1>> \o Uint16Bytes(etherType)

\* A 20-byte IPv4 header; the reader looks at version, header length,
\* protocol and the two addresses only.
Ipv4Header(protocol, sourceIp, destIp) ==
    <<69, 0, 0, 0,  0, 0, 0, 0,  64, protocol, 0, 0>> \o sourceIp \o destIp

UdpHeader(sourcePort, destPort) ==
    Uint16Bytes(sourcePort) \o Uint16Bytes(destPort) \o <<0, 0, 0, 0>>

UdpFrame(sourceIp, sourcePort, destIp, destPort, payload) ==
    EthernetHeader(2048) \o Ipv4Header(17, sourceIp, destIp)
        \o UdpHeader(sourcePort, destPort) \o payload

RtpDatagram(payloadType, sequenceNumber, timestamp, ssrc, audio) ==
    <<128, payloadType>> \o Uint16Bytes(sequenceNumber)
        \o Uint32Bytes(timestamp) \o Uint32Bytes(ssrc) \o audio

(***************************************************************************)
(* mulawToPcm (pcap-parser.ts 237-253).  The bitwise operators act on the  *)
(* 32-bit two's complement of their operands.                              *)
(***************************************************************************)
\* ~x for a 32-bit x.
BitNot(x) == -x - 1

\* x & mask for the mask (width - 1) * lo within the low 8 bits, lo and
\* width powers of two: 0x80 is (128, 2), 0x70 is (16, 8), 0x0F is (1, 16).
BitField(x, lo, width) == (((x % 256) \div lo) % width) * lo

\* x << n for results below 2^31.
ShiftLeft(x, n) == x * 2 ^ n

BIAS == 132             \* 0x84

\* Mutant of mulawToPcm: the byte is not complemented.
mulawToPcmPlain(b) ==
    LET sign     == BitField(b, 128, 2)
        exponent == BitField(b, 16, 8) \div 16
        mantissa == BitField(b, 1, 16)
        sample   == ShiftLeft(ShiftLeft(mantissa, 3) + BIAS, exponent) - BIAS
    IN IF sign # 0 THEN -sample ELSE sample

mulawToPcm(b) ==
    LET complemented == BitNot(b)
        sign     == BitField(complemented, 128, 2)            \* & 0x80
        exponent == BitField(complemented, 16, 8)  \div 16    \* (& 0x70) >> 4
        mantissa == BitField(complemented, 1, 16)             \* & 0x0F
        sample   == ShiftLeft(ShiftLeft(mantissa, 3) + BIAS, exponent) - BIAS
    IN IF sign # 0 THEN -sample ELSE sample

\* The variables of mulawToPcm while another part of the pipeline is modelled.
IdleMulaw == mulawByte = 0 /\ pcmSample = <<>>

(***************************************************************************)
(* The analysis job (analyze-pcap/index.ts 397-819): the per-file loop,    *)
(* the grouping by Call-ID and the matching of streams to calls.           *)
(*                                                                         *)
(* A Map is the sequence of its entries [key, value] in insertion order.   *)
(***************************************************************************)
MapIndex(map, key) ==
    LET at == { i \in 1..Len(map) : map[i].key = key }
    IN IF at = {} THEN 0 ELSE CHOOSE i \in at : TRUE

MapHas(map, key) == MapIndex(map, key) # 0

MapGet(map, key) == map[MapIndex(map, key)].value

\* Map.prototype.set: an existing key keeps its place.
MapSet(map, key, value) ==
    IF MapHas(map, key)
    THEN [map EXCEPT ![MapIndex(map, key)].value = value]
    ELSE Append(map, [key |-> key, value |-> value])

\* Mutant of pushPackets: each packet replaces the list of its ssrc.
RECURSIVE pushPacketsReplacing(_, _)
pushPacketsReplacing(all, packets) ==
    IF packets = <<>> THEN all
    ELSE pushPacketsReplacing(MapSet(all, Head(packets).ssrc, <<Head(packets)>>),
                              Tail(packets))

\* Lines 474-479.  The test on Len(all) is always true; it has TLC evaluate
\* the map after each packet rather than all at once at the end.
RECURSIVE pushPackets(_, _)
pushPackets(all, packets) ==
    IF Len(all) >= 0 /\ packets = <<>> THEN all
    ELSE LET packet == Head(packets)
             had    == IF MapHas(all, packet.ssrc) THEN all
                       ELSE MapSet(all, packet.ssrc, <<>>)
         IN pushPackets(MapSet(had, packet.ssrc,
                               Append(MapGet(had, packet.ssrc), packet)),
                        Tail(packets))

\* Lines 454-486, one iteration: what the collections are after the file.
collectFile(rtp, sip, file) ==
    IF ~file.downloads THEN [ allRtpPackets |-> rtp, allSipMessages |-> sip ]
    ELSE LET parsed == parsePcapFile(file.bytes)
         IN IF parsed.status = "failed"
            THEN [ allRtpPackets |-> rtp, allSipMessages |-> sip ]
            ELSE [ allRtpPackets |-> pushPackets(rtp, parsed.rtpPackets),
                   allSipMessages |-> sip \o parsed.sipMessages ]

NewCall == [ sipMessages |-> <<>>, rtpStreams |-> <<>> ]

\* Lines 496-504.
RECURSIVE groupByCallId(_, _)
groupByCallId(calls, messages) ==
    IF messages = <<>> THEN calls
    ELSE LET sipMsg == Head(messages)
             had    == IF MapHas(calls, sipMsg.callId) THEN calls
                       ELSE MapSet(calls, sipMsg.callId, NewCall)
             call   == MapGet(had, sipMsg.callId)
         IN groupByCallId(
                MapSet(had, sipMsg.callId,
                       [call EXCEPT !.sipMessages = Append(@, sipMsg)]),
                Tail(messages))

INVITE == <<73, 78, 86, 73, 84, 69>>            \* "INVITE"
RtpPrefix == <<114, 116, 112, 45>>              \* "rtp-"
Infinity == 2147483647                          \* above every time difference

\* sipMessages.find(m => m.method === 'INVITE'): <<the message>>, or Undefined.
findInvite(messages) ==
    LET at == { i \in 1..Len(messages) : messages[i].method = Some(INVITE) }
    IN IF at = {} THEN Undefined
       ELSE Some(messages[CHOOSE i \in at : \A k \in at : i <= k])

\* new Date(captureTime / 1000).getTime()
packetTimeOf(captureTime) == captureTime \div 1000

\* Line 519, in milliseconds.
timeDiffOf(invite, firstPacket) ==
    Abs(packetTimeOf(firstPacket.captureTime) - invite.timestamp)

\* Lines 521-523.
ipMatch(invite, firstPacket) ==
    /\ (invite.sourceIp = firstPacket.sourceIp \/ invite.destIp = firstPacket.sourceIp)
    /\ (invite.sourceIp = firstPacket.destIp \/ invite.destIp = firstPacket.destIp)

\* Lines 513-530: the loop over the calls, from entry i on.
RECURSIVE bestMatch(_, _, _, _, _)
bestMatch(calls, i, firstPacket, matchedCallId, minTimeDiff) ==
    IF i > Len(calls) THEN matchedCallId
    ELSE LET invite == findInvite(calls[i].value.sipMessages)
             timeDiff == timeDiffOf(invite[1], firstPacket)
         IN IF /\ invite # Undefined
               /\ ipMatch(invite[1], firstPacket)
               /\ timeDiff < 10000
               /\ timeDiff < minTimeDiff
            THEN bestMatch(calls, i + 1, firstPacket, Some(calls[i].key), timeDiff)
            ELSE bestMatch(calls, i + 1, firstPacket, matchedCallId, minTimeDiff)

\* The decimal digits of n >= 0.
RECURSIVE DigitsOf(_)
DigitsOf(n) == IF n < 10 THEN <<48 + n>> ELSE DigitsOf(n \div 10) \o <<48 + (n % 10)>>

\* `${n}` for an integer n.
NumberText(n) == IF n < 0 THEN <<45>> \o DigitsOf(-n) ELSE DigitsOf(n)

\* Mutant of attachStream: the stream is put into every call.
attachStreamToAll(calls, callId, ssrc, packets) ==
    [i \in 1..Len(calls) |->
        [calls[i] EXCEPT !.value.rtpStreams = MapSet(@, ssrc, packets)]]

\* Line 533.
attachStream(calls, callId, ssrc, packets) ==
    MapSet(calls, callId,
           [MapGet(calls, callId) EXCEPT !.rtpStreams = MapSet(@, ssrc, packets)])

\* Lines 508-540, one iteration.
matchStream(calls, ssrc, packets) ==
    IF Len(packets) = 0 THEN calls
    ELSE LET matchedCallId == bestMatch(calls, 1, packets[1], Undefined, Infinity)
         IN IF matchedCallId # Undefined /\ matchedCallId[1] # <<>>
            THEN attachStream(calls, matchedCallId[1], ssrc, packets)
            ELSE MapSet(calls, RtpPrefix \o NumberText(ssrc),
                        [ sipMessages |-> <<>>,
                          rtpStreams |-> <<[key |-> ssrc, value |-> packets]>> ])

(***************************************************************************)
(* extractCodecFromSDP (pcap-parser.ts 129-154).                           *)
(***************************************************************************)
MAudio == <<109, 61, 97, 117, 100, 105, 111>>                 \* "m=audio"
RtpAvp == <<82, 84, 80, 47, 65, 86, 80>>                 \* "RTP/AVP"
RtpMapKey == <<97, 61, 114, 116, 112, 109, 97, 112, 58>>      \* "a=rtpmap:"
G711Mulaw == <<71, 46, 55, 49, 49, 32, 956, 45, 108, 97, 119>>     \* "G.711 mu-law", with U+03BC
G711Alaw == <<71, 46, 55, 49, 49, 32, 65, 45, 108, 97, 119>>       \* "G.711 A-law"
G729 == <<71, 46, 55, 50, 57>>                              \* "G.729"
Opus == <<79, 112, 117, 115>>                                 \* "Opus"
Unknown == <<85, 110, 107, 110, 111, 119, 110>>              \* "Unknown"
PCMU == <<80, 67, 77, 85>>                                   \* "PCMU"
PCMA == <<80, 67, 77, 65>>                                   \* "PCMA"
G729Name == <<71, 55, 50, 57>>                               \* "G729"
OPUS == <<79, 80, 85, 83>>                                   \* "OPUS"

\* String.prototype.toUpperCase on ASCII text.
UpperCaseOf(text) ==
    [i \in 1..Len(text) |-> IF text[i] \in 97..122 THEN text[i] - 32 ELSE text[i]]

\* Whether the literal piece stands at 1-based position p of text.
LiteralAt(text, p, piece) ==
    p + Len(piece) - 1 <= Len(text) /\ SubSeq(text, p, p + Len(piece) - 1) = piece

\* How many consecutive characters from 1-based position p on are not in S.
RECURSIVE RunLenNot(_, _, _)
RunLenNot(text, p, S) ==
    IF p > Len(text) \/ text[p] \in S THEN 0 ELSE 1 + RunLenNot(text, p + 1, S)

\* /m=audio\s+\d+\s+RTP\/AVP\s+([\d\s]+)/ tried at 1-based position p: the
\* captured group, or Undefined.  The last \s+ is greedy and gives one
\* character back when nothing but white space follows it.
MAudioMatchAt(text, p) ==
    LET a   == p + 7
        ws1 == RunLen(text, a, WhiteSpace)
        b   == a + ws1
        num == RunLen(text, b, Digits)
        c   == b + num
        ws2 == RunLen(text, c, WhiteSpace)
        d   == c + ws2
        e   == d + 7
        ws3 == RunLen(text, e, WhiteSpace)
        all == RunLen(text, e, WhiteSpace \cup Digits)
    IN IF ~LiteralAt(text, p, MAudio) \/ ws1 < 1 \/ num < 1 \/ ws2 < 1
            \/ ~LiteralAt(text, d, RtpAvp) \/ ws3 < 1
       THEN Undefined
       ELSE IF all > ws3 THEN Some(SubSeq(text, e + ws3, e + all - 1))
       ELSE IF ws3 >= 2 THEN Some(SubSeq(text, e + ws3 - 1, e + ws3 - 1))
       ELSE Undefined

\* sdpBody.match(...) : the group of the leftmost match, or Undefined.
mAudioMatch(text) ==
    LET hits == { p \in 1..Len(text) : MAudioMatchAt(text, p) # Undefined }
    IN IF hits = {} THEN Undefined
       ELSE MAudioMatchAt(text, CHOOSE p \in hits : \A q \in hits : p <= q)

\* group.split(/\s+/).map(Number), from 1-based position p on: an empty piece
\* (before leading or after trailing white space) is the number 0.
RECURSIVE splitNumbers(_, _)
splitNumbers(group, p) ==
    LET num == RunLen(group, p, Digits)
        ws  == RunLen(group, p + num, WhiteSpace)
    IN IF p + num > Len(group) THEN <<ParseInt(SubSeq(group, p, p + num - 1))>>
       ELSE <<ParseInt(SubSeq(group, p, p + num - 1))>> \o splitNumbers(group, p + num + ws)

\* sdpBody.match(new RegExp(`a=rtpmap:${pt}\\s+([^/\\s]+)`)): the group of the
\* leftmost match, or Undefined.
rtpmapMatch(text, pt) ==
    LET key  == RtpMapKey \o NumberText(pt)
        hit(p) == LET a  == p + Len(key)
                      ws == RunLen(text, a, WhiteSpace)
                  IN /\ LiteralAt(text, p, key)
                     /\ ws >= 1
                     /\ RunLenNot(text, a + ws, WhiteSpace \cup {47}) >= 1
        hits == { p \in 1..Len(text) : hit(p) }
    IN IF hits = {} THEN Undefined
       ELSE LET p  == CHOOSE x \in hits : \A y \in hits : x <= y
                a  == p + Len(key) + RunLen(text, p + Len(key), WhiteSpace)
            IN Some(SubSeq(text, a, a + RunLenNot(text, a, WhiteSpace \cup {47}) - 1))

codecName(codec) ==
    IF codec = PCMU THEN G711Mulaw
    ELSE IF codec = PCMA THEN G711Alaw
    ELSE IF Includes(codec, G729Name) THEN G729
    ELSE IF Includes(codec, OPUS) THEN Opus
    ELSE codec

\* Lines 135-147: the loop over the payload types, from the i-th on; Undefined
\* when no payload type has an rtpmap line.
RECURSIVE codecByRtpmap(_, _, _)
codecByRtpmap(text, payloadTypes, i) ==
    IF i > Len(payloadTypes) THEN Undefined
    ELSE LET m == rtpmapMatch(text, payloadTypes[i])
         IN IF m # Undefined THEN Some(codecName(UpperCaseOf(m[1])))
            ELSE codecByRtpmap(text, payloadTypes, i + 1)

extractCodecFromSDP(sdpBody) ==
    LET m == mAudioMatch(sdpBody)
        payloadTypes == splitNumbers(m[1], 1)
        named == codecByRtpmap(sdpBody, payloadTypes, 1)
        has(n) == \E i \in 1..Len(payloadTypes) : payloadTypes[i] = n
    IN IF m = Undefined THEN Unknown
       ELSE IF named # Undefined THEN named[1]
       ELSE IF has(0) THEN G711Mulaw
       ELSE IF has(8) THEN G711Alaw
       ELSE IF has(18) THEN G729
       ELSE Unknown

\* The job's variables while another part of the pipeline is modelled.
IdleJob ==
    /\ pcapFiles = <<>> /\ fileIdx = 0 /\ allRtpPackets = <<>>
    /\ allSipMessages = <<>> /\ callMap = <<>> /\ streamIdx = 0
    /\ callIdx = 0 /\ call_metrics = <<>> /\ intervalMetricsToInsert = <<>>
    /\ audioFiles = <<>> /\ metricsCalls = <<>> /\ audioLog = <<>>

(***************************************************************************)
(* calculateMetrics (pcap-parser.ts 156-235).                              *)
(*                                                                         *)
(* Scales.  A jitter sample is kept in microseconds: 1000 times the code's *)
(* d / 1000, so the division is exact.  avgJitter, avgLatency and          *)
(* effectiveLatency are microseconds rounded down.  Id, Ie_eff and R are   *)
(* kept in tenths, rounded down (each rounding is monotone); on tenths the *)
(* cubic of the MOS is exact in integers: mosScore is kept as              *)
(* (mos - 1) / 7e-9, so 1.0 is 0, 4.5 is 500000000 and 5.0 is MosFive.     *)
(***************************************************************************)
\* The comparator of the sort at line 161.
seqCompare(a, b) ==
    LET diff == a.sequenceNumber - b.sequenceNumber
    IN JsRem(diff + 32768, 65536) - 32768

sortedPackets(pkts) ==
    LET n    == Len(pkts)
        cmp  == [i \in 1..n |-> [j \in 1..n |-> seqCompare(pkts[i], pkts[j])]]
        perm == SortPerm(cmp, n)
    IN [k \in 1..n |-> pkts[perm[k]]]

\* One iteration of the loss loop (lines 167-174): what packet i adds.
lossGap(sorted, i) ==
    LET expectedSeq == (sorted[i - 1].sequenceNumber + 1) % 65536
        actualSeq   == sorted[i].sequenceNumber
    IN IF actualSeq # expectedSeq
       THEN JsRem(actualSeq - expectedSeq + 65536, 65536)
       ELSE 0

RECURSIVE countLost(_, _)
countLost(sorted, i) ==
    IF i > Len(sorted) THEN 0
    ELSE lossGap(sorted, i) + countLost(sorted, i + 1)

transitOf(packet) == packet.captureTime - packet.timestamp

\* The jitter loop (lines 176-186), from packet i on, in microseconds.
RECURSIVE jitterLoop(_, _, _)
jitterLoop(sorted, i, lastTransit) ==
    IF i > Len(sorted) THEN <<>>
    ELSE LET transit == transitOf(sorted[i])
         IN (IF lastTransit # 0 THEN <<Abs(transit - lastTransit)>> ELSE <<>>)
            \o jitterLoop(sorted, i + 1, transit)

codecImpairment == 10
Bpl == 17
MosFive == 571428571

\* 10 * Id for an effective latency in microseconds (lines 201-203).
\* Above the knee the sum is (134 * effectiveLatency - 19503000) \div 100000,
\* taken by the hundred thousands of effectiveLatency to stay within 32 bits.
delayImpairment(effectiveLatency) ==
    IF effectiveLatency < 177300
    THEN (24 * effectiveLatency) \div 100000
    ELSE 134 * (effectiveLatency \div 100000)
           + (134 * (effectiveLatency % 100000) - 19503000) \div 100000

\* <<quotient, remainder>> of a * b by c > 0, for a, b >= 0, computed without
\* forming the product.
RECURSIVE MulDiv(_, _, _)
MulDiv(a, b, c) ==
    IF a = 0 THEN <<0, 0>>
    ELSE LET half == MulDiv(a \div 2, b, c)
             rest == 2 * half[2] + (a % 2) * b
         IN <<2 * half[1] + rest \div c, rest % c>>

\* Mutant of lossImpairment: Bpl / (percent + Bpl) in place of
\* percent / (percent + Bpl).
lossImpairmentInverted(packetsLost, totalPackets) ==
    LET num == (95 - codecImpairment) * Bpl * totalPackets
        den == 100 * packetsLost + Bpl * totalPackets
        q   == num \div den
        r   == num % den
    IN 10 * codecImpairment + 10 * q + (10 * r) \div den

\* 10 * Ie_eff (line 207): packetLossPercent is 100 * lost / total, so
\* percent / (percent + Bpl) is 100 * lost / (100 * lost + Bpl * total).
lossImpairment(packetsLost, totalPackets) ==
    LET den == 100 * packetsLost + Bpl * totalPackets
    IN 10 * codecImpairment
         + MulDiv(10 * (95 - codecImpairment) * 100, packetsLost, den)[1]

\* 10 * R (lines 209-211).
rFactor(Id, Ie_eff) == Max(0, Min(1000, 942 - Id - Ie_eff - 15))

\* Mutant of mosOf: the cubic without the final clamp.
mosOfUnclamped(R) ==
    IF R >= 0 /\ R < 1000
    THEN 500000 * R + R * (R - 600) * (1000 - R)
    ELSE IF R >= 1000 THEN 500000000 ELSE 0

\* (mos - 1) / 7e-9 from 10 * R (lines 213-219).
mosOf(R) ==
    LET raw == IF R >= 0 /\ R < 1000
               THEN 500000 * R + R * (R - 600) * (1000 - R)
               ELSE IF R >= 1000 THEN 500000000 ELSE 0
    IN Max(0, Min(MosFive, raw))

\* Mutant of totalPacketsOf: the packets seen, without the lost ones.
totalPacketsSeenOnly(received, packetsLost) == received

\* totalPackets (line 196).
totalPacketsOf(received, packetsLost) == received + packetsLost

calculateMetrics(pkts) ==
    LET sorted        == sortedPackets(pkts)
        packetsLost   == countLost(sorted, 2)
        jitterValues  == jitterLoop(sorted, 1, 0)
        avgJitter     == IF Len(jitterValues) > 0
                         THEN SumSeq(jitterValues) \div Len(jitterValues)
                         ELSE 0
        maxJitter     == IF Len(jitterValues) > 0 THEN MaxSeq(jitterValues) ELSE 0
        avgLatency    == avgJitter * 4
        maxLatency    == maxJitter * 4
        totalPackets  == totalPacketsOf(Len(sorted), packetsLost)
        effectiveLatency == avgLatency + avgJitter * 2
        Id            == delayImpairment(effectiveLatency)
        Ie_eff        == lossImpairment(packetsLost, totalPackets)
        R             == rFactor(Id, Ie_eff)
    IN [ startTime       |-> sorted[1].captureTime \div 1000,
         endTime         |-> sorted[Len(sorted)].captureTime \div 1000,
         duration        |-> sorted[Len(sorted)].captureTime - sorted[1].captureTime,
         packetsSent     |-> totalPackets,
         packetsReceived |-> Len(sorted),
         packetsLost     |-> packetsLost,
         jitterValues    |-> jitterValues,
         avgJitter       |-> avgJitter,
         maxJitter       |-> maxJitter,
         avgLatency      |-> avgLatency,
         maxLatency      |-> maxLatency,
         R               |-> R,
         mosScore        |-> mosOf(R),
         codec           |-> "G.711" ]

NoMetrics ==
    [ startTime |-> 0, endTime |-> 0, duration |-> 0, packetsSent |-> 0,
      packetsReceived |-> 0, packetsLost |-> 0, jitterValues |-> <<>>,
      avgJitter |-> 0, maxJitter |-> 0, avgLatency |-> 0, maxLatency |-> 0,
      R |-> 0, mosScore |-> 0, codec |-> "" ]

\* The metrics variables while another part of the pipeline is modelled.
IdleMetrics == rtpPackets = <<>> /\ metrics = NoMetrics

(***************************************************************************)
(* The packets of the metrics runs: sequence numbers on both sides of the  *)
(* 65535 -> 0 wrap, and three capture instants (microseconds) with their   *)
(* RTP timestamps, of transit 0, 1000 and 40000 microseconds.              *)
(***************************************************************************)
SeqValues == {65534, 65535, 0, 2}

Instants == { [captureTime |-> 1000000, timestamp |-> 1000000],
              [captureTime |-> 1020000, timestamp |-> 1019000],
              [captureTime |-> 1070000, timestamp |-> 1030000] }

MetricPackets ==
    { [sequenceNumber |-> s, timestamp |-> t.timestamp, captureTime |-> t.captureTime] :
        s \in SeqValues, t \in Instants }

PacketLists == UNION { [1..n -> MetricPackets] : n \in 1..MaxPackets }

(***************************************************************************)
(* SpecMetrics: calculateMetrics applied to every bounded packet list.     *)
(***************************************************************************)
InitMetrics ==
    /\ pc = "metrics"
    /\ rtpPackets \in PacketLists
    /\ metrics = NoMetrics
    /\ IdleDecode
    /\ IdlePcap
    /\ IdleJob
    /\ IdleMulaw

CalculateMetrics ==
    /\ pc = "metrics"
    /\ Len(rtpPackets) # 0
    /\ metrics' = calculateMetrics(rtpPackets)
    /\ pc' = "measured"
    /\ UNCHANGED <<rtpPackets, decodeVars, pcapVars, jobVars, mulawVars>>

NextMetrics == CalculateMetrics

SpecMetrics == InitMetrics /\ [][NextMetrics]_vars

(***************************************************************************)
(* Reference notions the claims about loss are stated with.                *)
(***************************************************************************)
SeqsOf(pkts) == { pkts[i].sequenceNumber : i \in 1..Len(pkts) }

DistinctSeqs(pkts) == Cardinality(SeqsOf(pkts)) = Len(pkts)

\* Forward distance from sequence number a to b on the 16-bit circle.
Forward(a, b) == (b - a) % 65536

\* The circularly first observed numbers: every other one lies less than
\* half a circle ahead.  The list fits a window of fewer than 32768 values
\* exactly when there is one.
CircularFirsts(pkts) ==
    { f \in SeqsOf(pkts) : \A s \in SeqsOf(pkts) : Forward(f, s) < 32768 }

\* Sequence numbers missing between the circularly first and last observed.
MissingBetween(pkts) ==
    LET f    == CHOOSE x \in CircularFirsts(pkts) : TRUE
        span == MaxSeq([i \in 1..Len(pkts) |-> Forward(f, pkts[i].sequenceNumber)])
    IN span + 1 - Len(pkts)

\* C1: for a list of distinct sequence numbers within a window of fewer than
\* 32768 values, in any input order, packetsLost is the number of sequence
\* numbers missing between the circularly first and last observed number.
C1_LossIsMissingCount ==
    (pc = "measured" /\ DistinctSeqs(rtpPackets) /\ CircularFirsts(rtpPackets) # {})
        => metrics.packetsLost = MissingBetween(rtpPackets)

\* C3: packetsSent = packetsReceived + packetsLost, packetsReceived is the
\* length of the input list, and packetsLost is never negative.
C3_SentIsReceivedPlusLost ==
    pc = "measured" =>
        /\ metrics.packetsSent = metrics.packetsReceived + metrics.packetsLost
        /\ metrics.packetsReceived = Len(rtpPackets)
        /\ metrics.packetsLost >= 0

C3_Witness ==
    /\ pc = "measured"
    /\ Len(rtpPackets) = 3
    /\ metrics.packetsLost > 0
    /\ metrics.packetsSent > 3

\* C11: for every non-empty list the R-factor lies in [0, 100] (0..1000 in
\* tenths) and mosScore lies in [1.0, 4.5] (0..500000000 on the scale of
\* mosOf).
C11_MosAndRWithinRange ==
    pc = "measured" =>
        /\ metrics.R \in 0..1000
        /\ metrics.mosScore \in 0..500000000

\* A list whose R is positive but so low that the cubic falls under 1.0 and
\* the lower clamp acts.
C11_Witness ==
    /\ pc = "measured"
    /\ metrics.R > 0
    /\ 500000 * metrics.R + metrics.R * (metrics.R - 600) * (1000 - metrics.R) < 0
    /\ metrics.mosScore = 0

DistinctCaptureTimes(pkts) ==
    \A i, j \in 1..Len(pkts) : pkts[i].captureTime = pkts[j].captureTime => i = j

\* The list in ascending capture time (for distinct capture times).
ByCaptureTime(pkts) ==
    CHOOSE s \in [1..Len(pkts) -> {pkts[i] : i \in 1..Len(pkts)}] :
        \A i \in 1..(Len(pkts) - 1) : s[i].captureTime < s[i + 1].captureTime

\* C19: for a list of distinct capture times, the jitter samples are those of
\* the jitter loop walking the packets in capture-time order, whatever the
\* order of their sequence numbers.
C19_JitterWalksCaptureOrder ==
    (pc = "measured" /\ DistinctCaptureTimes(rtpPackets))
        => metrics.jitterValues = jitterLoop(ByCaptureTime(rtpPackets), 1, 0)

\* C20: a list of n packets gives n - 1 jitter samples, sample k being
\* |transit - previous transit| of the packet after the k-th walked, with
\* none left out.
C20_OneSamplePerLaterPacket ==
    pc = "measured" =>
        LET walked == sortedPackets(rtpPackets)
        IN /\ Len(metrics.jitterValues) = Len(rtpPackets) - 1
           /\ \A k \in 1..Len(metrics.jitterValues) :
                 metrics.jitterValues[k]
                    = Abs(transitOf(walked[k + 1]) - transitOf(walked[k]))

\* C21: for the sequence numbers a and b of any two packets sorted, the comparator
\* returns (a - b) mod 65536 mapped into [-32768, 32767], and unless that is
\* -32768 the results for (a, b) and (b, a) have opposite signs.
C21_ComparatorIsCircularDifference ==
    pc = "measured" => \A i, j \in 1..Len(rtpPackets) :
        LET a == rtpPackets[i].sequenceNumber
            b == rtpPackets[j].sequenceNumber
            circular == ((a - b + 32768) % 65536) - 32768
            forth == seqCompare(rtpPackets[i], rtpPackets[j])
            back  == seqCompare(rtpPackets[j], rtpPackets[i])
        IN /\ forth = circular
           /\ circular # -32768 => ((forth < 0 <=> back > 0) /\ (forth = 0 <=> back = 0))

\* The sequence numbers of the list are consecutive on the 16-bit circle.
NoMissing(pkts) ==
    \E f \in SeqsOf(pkts) :
        { Forward(f, x) : x \in SeqsOf(pkts) } = 0..(Cardinality(SeqsOf(pkts)) - 1)

\* C29: a list without missing sequence numbers in which one packet is there
\* twice has packetsLost 0 and packetsSent at most one above the number of
\* distinct packets.
C29_DuplicateIsNotLoss ==
    (pc = "measured" /\ NoMissing(rtpPackets)
        /\ Len(rtpPackets) = Cardinality(SeqsOf(rtpPackets)) + 1)
        => /\ metrics.packetsLost = 0
           /\ metrics.packetsSent <= Cardinality(SeqsOf(rtpPackets)) + 1

CaptureTimesOf(pkts) == { pkts[i].captureTime : i \in 1..Len(pkts) }

\* C30: startTime and endTime are the smallest and the largest captureTime
\* of the list (as Dates, in milliseconds), startTime <= endTime and
\* duration >= 0, whatever the order of the sequence numbers.
C30_StartAndEndAreCaptureBounds ==
    pc = "measured" =>
        /\ metrics.startTime <= metrics.endTime
        /\ metrics.duration >= 0
        /\ \A t \in CaptureTimesOf(rtpPackets) :
               /\ metrics.startTime <= t \div 1000
               /\ t \div 1000 <= metrics.endTime
        /\ \E t \in CaptureTimesOf(rtpPackets) : metrics.startTime = t \div 1000
        /\ \E t \in CaptureTimesOf(rtpPackets) : metrics.endTime = t \div 1000

(***************************************************************************)
(* What calculateMetrics returns over all bounded lists: the (jitter,      *)
(* loss, score) summaries a second list can have.                          *)
(***************************************************************************)
Summary(m) ==
    [ jitterSum   |-> SumSeq(m.jitterValues),
      jitterCount |-> Len(m.jitterValues),
      packetsLost |-> m.packetsLost,
      packetsReceived |-> m.packetsReceived,
      mosScore    |-> m.mosScore ]

MetricsImage == { Summary(calculateMetrics(l)) : l \in PacketLists }

\* The averages sum / count (0 when there is no sample) are equal.
SameAvgJitter(a, b) ==
    IF a.jitterCount = 0 \/ b.jitterCount = 0
    THEN (IF a.jitterCount = 0 THEN 0 ELSE a.jitterSum)
         = (IF b.jitterCount = 0 THEN 0 ELSE b.jitterSum)
    ELSE a.jitterSum * b.jitterCount = b.jitterSum * a.jitterCount

\* lost / (received + lost) of a exceeds that of b; cross-multiplied, the
\* lost * lost terms cancel.
HigherLossPercent(a, b) ==
    a.packetsLost * b.packetsReceived > b.packetsLost * a.packetsReceived

\* C10: of two lists with the same average jitter, the one with the higher
\* loss percentage never has the higher mosScore.
C10_MosNeverRisesWithLoss ==
    pc = "measured" =>
        LET mine == Summary(metrics) IN
        \A o \in MetricsImage :
            (SameAvgJitter(o, mine) /\ HigherLossPercent(o, mine))
                => o.mosScore <= mine.mosScore

C10_Witness ==
    /\ pc = "measured"
    /\ metrics.packetsLost > 0
    /\ LET mine == Summary(metrics) IN
       \E o \in MetricsImage :
          /\ SameAvgJitter(o, mine)
          /\ HigherLossPercent(o, mine)
          /\ o.mosScore < mine.mosScore

(***************************************************************************)
(* The UDP payloads of the decoder runs.                                   *)
(*   Signaling: every concatenation of up to MaxPieces text pieces.        *)
(*   Media: 12-byte headers over a few values of each field, with the top  *)
(*   bit of the first timestamp and ssrc byte both clear and set, followed *)
(*   by 0, 1 or 5 further bytes or by the bytes of "SIP/2.0"; and payloads *)
(*   shorter than a header.                                                *)
(***************************************************************************)
TextPieces ==
    { SIP20,
      <<32>>,                                   \* " "
      <<73, 78, 86, 73, 84, 69>>,               \* "INVITE"
      <<50, 48, 48>>,                           \* "200"
      <<13, 10>>,                               \* "\r\n"
      <<120>>,                                  \* "x"
      <<67, 97, 108, 108, 45, 73, 68, 58>>,     \* "Call-ID:"
      <<10>>,                                   \* "\n"
      SdpMarker }

RECURSIVE Concat(_)
Concat(pieces) == IF pieces = <<>> THEN <<>> ELSE Head(pieces) \o Concat(Tail(pieces))

TextPayloads ==
    { Concat(ps) : ps \in UNION { [1..n -> TextPieces] : n \in 1..MaxPieces } }

MediaPayloads ==
    { <<first, second>> \o seq \o <<t>> \o rest \o <<s, 0, 0, 7>> \o tail :
        first \in {128, 129, 191, 0},
        second \in {0, 136},
        seq \in {<<0, 1>>, <<255, 255>>},
        t \in {0, 127, 128, 255},
        rest \in {<<0, 0, 0>>, <<255, 255, 255>>},
        s \in {0, 128},
        tail \in {<<>>, <<255>>, <<1, 2, 3, 4, 5>>, SIP20} }

ShortPayloads == { <<>>, <<128>>, <<128, 0, 0, 1, 0, 0, 0, 0, 0, 0, 0>> }

UdpPayloads == TextPayloads \cup MediaPayloads \cup ShortPayloads

\* The envelope of the decoded datagram: the same for every run.
EnvCaptureTime == 1000000
EnvTimestamp == 1000
EnvSourceIp == <<10, 0, 0, 1>>
EnvDestIp == <<10, 0, 0, 2>>
EnvPort == 5060

(***************************************************************************)
(* SpecDecode: the two decoders applied to every bounded UDP payload.      *)
(***************************************************************************)
InitDecode ==
    /\ pc = "decode"
    /\ udpPayload \in UdpPayloads
    /\ decoded = NoRecord
    /\ IdleMetrics
    /\ IdlePcap
    /\ IdleJob
    /\ IdleMulaw

DecodePayload ==
    /\ pc = "decode"
    /\ decoded' = decodeUdpPayload(udpPayload, EnvCaptureTime, EnvTimestamp,
                                   EnvSourceIp, EnvPort, EnvDestIp, EnvPort)
    /\ pc' = "decoded"
    /\ UNCHANGED <<udpPayload, metricsVars, pcapVars, jobVars, mulawVars>>

NextDecode == DecodePayload

SpecDecode == InitDecode /\ [][NextDecode]_vars

\* C8: every message parseSIPMessage returns has exactly one of method and
\* statusCode set, never both and never neither.
C8_ExactlyOneOfMethodAndStatus ==
    (pc = "decoded" /\ decoded.kind = "sip")
        => (decoded.method = Undefined) # (decoded.statusCode = Undefined)

\* C9: for every accepted payload, sequenceNumber is in 0..65535 and timestamp
\* and ssrc are the unsigned big-endian integers of header bytes 4-7 and 8-11
\* (stated on the top byte and the low 24 bits, so that no value of the
\* statement exceeds 2^31).
C9_RtpFieldsUnsigned ==
    (pc = "decoded" /\ decoded.kind = "rtp") =>
        /\ decoded.sequenceNumber \in 0..65535
        /\ decoded.timestamp >= 0
        /\ decoded.timestamp \div 16777216 = udpPayload[5]
        /\ decoded.timestamp % 16777216
             = udpPayload[6] * 65536 + udpPayload[7] * 256 + udpPayload[8]
        /\ decoded.ssrc >= 0
        /\ decoded.ssrc \div 16777216 = udpPayload[9]
        /\ decoded.ssrc % 16777216
             = udpPayload[10] * 65536 + udpPayload[11] * 256 + udpPayload[12]

\* What the media decoder accepts, and what the signaling decoder looks for,
\* said on the bytes of the payload.
MediaShaped(payload) == Len(payload) >= 12 /\ payload[1] \div 64 = 2

HasSip20(payload) ==
    \E i \in 1..Len(payload) : i + 6 <= Len(payload) /\ SubSeq(payload, i, i + 6) = SIP20

\* C18: a payload gives a media packet exactly when it has 12 bytes or more
\* and the top two bits of its first byte are 2; it gives a signaling message
\* exactly when it does not and its text contains SIP/2.0; otherwise it gives
\* no record (and nothing is thrown).
C18_MediaFirstThenSignaling ==
    pc = "decoded" =>
        /\ decoded.kind = "rtp" <=> MediaShaped(udpPayload)
        /\ decoded.kind = "sip" <=> (~MediaShaped(udpPayload) /\ HasSip20(udpPayload))
        /\ decoded.kind = "none" <=> (~MediaShaped(udpPayload) /\ ~HasSip20(udpPayload))

\* A payload both decoders would take: it is decoded as media.
C18_Witness ==
    /\ pc = "decoded"
    /\ MediaShaped(udpPayload) /\ HasSip20(udpPayload)
    /\ decoded.kind = "rtp"

(***************************************************************************)
(* Inputs of SpecPcap: buffers written from up to MaxFrames frames in      *)
(* either byte order or under a foreign magic number, and every prefix of  *)
(* such a buffer (a capture cut short at any byte).                        *)
(***************************************************************************)
HostA == <<10, 0, 0, 1>>
HostB == <<10, 0, 0, 2>>

\* "BYE x SIP/2.0\r\nCall-ID: a\r\n\r\n"
ByeText ==
    <<66, 89, 69, 32, 120, 32>> \o SIP20 \o <<13, 10>>
        \o <<67, 97, 108, 108, 45, 73, 68, 58, 32, 97>> \o CRLFCRLF

PoolFrames ==
    { [ sec |-> 0, usec |-> 5, data |-> <<1, 2, 3>> ],
      [ sec |-> 1, usec |-> 999999, data |-> EthernetHeader(2054) \o <<0, 1, 8, 0>> ],
      [ sec |-> 1, usec |-> 20000,
        data |-> UdpFrame(HostA, 4000, HostB, 4002,
                          RtpDatagram(0, 7, 160, 9, <<255, 0>>)) ],
      [ sec |-> 2, usec |-> 0,
        data |-> UdpFrame(HostB, 5060, HostA, 5060, ByeText) ],
      [ sec |-> 3, usec |-> 1, data |-> <<>> ] }

ByteOrders == {"big", "little", "other"}

Captures ==
    { [ order |-> o, frames |-> fs ] :
        o \in ByteOrders,
        fs \in UNION { [1..n -> PoolFrames] : n \in 0..MaxFrames } }

\* The buffer a capture descriptor stands for when nothing is cut off.
WholeBuffer(c) == WriteCapture(c.order, c.frames)

(***************************************************************************)
(* SpecPcap: parsePcapFile, one loop iteration per step.                   *)
(***************************************************************************)
InitPcap ==
    /\ pc = "pcap"
    /\ \E c \in Captures :
          LET whole == WholeBuffer(c)
          IN \E cut \in 0..Len(whole) :
                /\ capture = [ order |-> c.order, frames |-> c.frames, cut |-> cut ]
                /\ pcapBytes = SubSeq(whole, 1, cut)
    /\ reader = NoReader
    /\ IdleMetrics
    /\ IdleDecode
    /\ IdleJob
    /\ IdleMulaw

\* Lines 307-321: the magic number is read and the byte order chosen, or the
\* call throws.
ReadMagic ==
    /\ pc = "pcap"
    /\ reader.status = "idle"
    /\ reader' = readerStart(pcapBytes)
    /\ UNCHANGED <<pc, capture, pcapBytes, metricsVars, decodeVars, jobVars, mulawVars>>

\* Lines 323-378: the loop test and, when it passes, one iteration.
ReadFrame ==
    /\ pc = "pcap"
    /\ reader.status = "loop"
    /\ reader' = readerStep(pcapBytes, reader)
    /\ UNCHANGED <<pc, capture, pcapBytes, metricsVars, decodeVars, jobVars, mulawVars>>

NextPcap == ReadMagic \/ ReadFrame

SpecPcap == InitPcap /\ [][NextPcap]_vars

ValidMagic == capture.order \in {"big", "little"}

Whole == capture.cut = Len(WholeBuffer(capture))

\* What line 334-335 must see for a written frame.
Written(f) == [ captureTime |-> f.sec * 1000000 + f.usec, packetData |-> f.data ]

\* C4: on a well-formed buffer of either byte order built from N frames, the
\* frame loop visits exactly the N frames, in order, each with the capture
\* time ts_sec * 1000000 + ts_usec and the payload bytes that were written.
C4_LoopVisitsWrittenFrames ==
    (reader.status = "done" /\ ValidMagic /\ Whole)
        => reader.frames = [i \in 1..Len(capture.frames) |-> Written(capture.frames[i])]

C4_Witness ==
    /\ reader.status = "done" /\ capture.order = "little" /\ Whole
    /\ Len(capture.frames) = MaxFrames
    /\ Len(reader.frames) = MaxFrames
    /\ reader.frames[1].captureTime = 1999999

\* C5: parsePcapFile fails exactly when the first four bytes are neither
\* magic number or the buffer is shorter than the 24-byte global header.
C5_FailsExactlyOnMalformedHeader ==
    reader.status \in {"done", "failed"}
        => (reader.status = "failed"
                <=> (Len(pcapBytes) < 24
                       \/ SubSeq(pcapBytes, 1, 4) \notin {MagicBigEndian, MagicLittleEndian}))

\* Every iteration of the loop changes the reader, so an iteration is enabled
\* exactly while the reader is in the loop.
LoopRunning == pc = "pcap" /\ reader.status = "loop"

\* parsePcapFile is one synchronous call: once it is entered the header is
\* read, and while the loop test is due the next iteration is taken.  The
\* second condition is WF_vars(ReadFrame) with ENABLED <<ReadFrame>>_vars
\* written out as LoopRunning.
SpecPcapFair ==
    /\ SpecPcap
    /\ WF_vars(ReadMagic)
    /\ ([]<>(~LoopRunning) \/ []<><<ReadFrame>>_vars)

\* The included length the iteration at the reader's offset reads (line 328).
InclLenAt(r) == getUint32(pcapBytes, r.offset + 8, r.littleEndian)

IterationAdvancesOrStops ==
    ReadFrame =>
        \/ reader'.status = "done"
        \/ /\ reader'.status = "loop"
           /\ reader'.offset = reader.offset + 16 + InclLenAt(reader)
           /\ reader'.offset <= Len(pcapBytes)
           /\ Len(reader'.frames) = Len(reader.frames) + 1

\* C27: for every finite buffer the frame loop terminates: each iteration
\* either stops the loop or advances the offset by exactly 16 + incl_len,
\* whatever the frame holds, so no frame is read twice and a skipped frame
\* does not keep later frames from being read.
C27_FrameLoopTerminates ==
    /\ [][IterationAdvancesOrStops]_vars
    /\ <>(reader.status \in {"done", "failed"})

\* A skipped short frame followed by a frame that yields a record.
C27_Witness ==
    /\ reader.status = "done" /\ ValidMagic /\ Whole
    /\ Len(capture.frames) = MaxFrames
    /\ Len(capture.frames[1].data) \in 1..13
    /\ Len(reader.frames) = MaxFrames
    /\ Len(reader.rtpPackets) + Len(reader.sipMessages) = 1
    /\ reader.offset = Len(pcapBytes)

\* The frames of the capture that lie wholly before the cut.
RECURSIVE CompleteFrames(_, _, _)
CompleteFrames(frames, at, cut) ==
    IF frames = <<>> \/ at + 16 + Len(Head(frames).data) > cut THEN <<>>
    ELSE <<Head(frames)>>
            \o CompleteFrames(Tail(frames), at + 16 + Len(Head(frames).data), cut)

RecordOf(f) ==
    frameRecords(f.data, f.sec * 1000000 + f.usec, f.sec * 1000 + f.usec \div 1000)

RECURSIVE RecordsOfKind(_, _)
RecordsOfKind(frames, kind) ==
    IF frames = <<>> THEN <<>>
    ELSE (IF RecordOf(Head(frames)).kind = kind THEN <<RecordOf(Head(frames))>> ELSE <<>>)
            \o RecordsOfKind(Tail(frames), kind)

\* C7: after a valid global header, a buffer that ends inside a record header
\* or inside a frame's bytes makes parsePcapFile stop without error and return
\* exactly the records of the complete frames before the truncation point.
C7_TruncationKeepsCompleteFrames ==
    (ValidMagic /\ capture.cut >= 24 /\ reader.status # "loop" /\ reader.status # "idle")
        => /\ reader.status = "done"
           /\ reader.rtpPackets = RecordsOfKind(CompleteFrames(capture.frames, 24, capture.cut), "rtp")
           /\ reader.sipMessages = RecordsOfKind(CompleteFrames(capture.frames, 24, capture.cut), "sip")

C7_Witness ==
    /\ ValidMagic /\ ~Whole /\ reader.status = "done"
    /\ Len(capture.frames) = MaxFrames
    /\ Len(reader.rtpPackets) + Len(reader.sipMessages) = 1
    /\ RecordOf(capture.frames[1]).kind # "none"
    /\ RecordOf(capture.frames[MaxFrames]).kind # "none"

(***************************************************************************)
(* The loop over the calls (analyze-pcap/index.ts 549-723), with            *)
(* decodeG711Mulaw and createWavFile (pcap-parser.ts 255-301).             *)
(***************************************************************************)
intervalDuration == 5000000
G711Text == <<71, 46, 55, 49, 49>>                          \* "G.711"
MuLawText == <<956, 45, 108, 97, 119>>                     \* "mu-law", with U+03BC

\* Mutant of noMedia: no call is skipped.
noMediaNever(callData) == FALSE

\* Line 550.
noMedia(callData) == Len(callData.rtpStreams) = 0

\* find(m => m.method === 'INVITE' && m.sdpBody): <<the message>>, or Undefined.
inviteWithSdp(messages) ==
    LET at == { i \in 1..Len(messages) :
                  /\ messages[i].method = Some(INVITE)
                  /\ messages[i].sdpBody # Undefined
                  /\ messages[i].sdpBody[1] # <<>> }
    IN IF at = {} THEN Undefined
       ELSE Some(messages[CHOOSE i \in at : \A k \in at : i <= k])

\* Line 557.
codecOf(messages) ==
    LET invite == inviteWithSdp(messages)
    IN IF invite # Undefined THEN extractCodecFromSDP(invite[1].sdpBody[1]) ELSE Unknown

\* Lines 560-563.
RECURSIVE combineStreams(_)
combineStreams(rtpStreams) ==
    IF rtpStreams = <<>> THEN <<>>
    ELSE Head(rtpStreams).value \o combineStreams(Tail(rtpStreams))

\* Line 566.
sortByCaptureTime(packets) ==
    LET n    == Len(packets)
        cmp  == [i \in 1..n |-> [j \in 1..n |->
                    packets[i].captureTime - packets[j].captureTime]]
        perm == SortPerm(cmp, n)
    IN [k \in 1..n |-> packets[perm[k]]]

\* Lines 613-616: Math.ceil(callDuration / intervalDuration).
numIntervalsOf(allPackets) ==
    LET callDuration == allPackets[Len(allPackets)].captureTime - allPackets[1].captureTime
    IN (callDuration + intervalDuration - 1) \div intervalDuration

\* Lines 632-634, for the 0-based interval i.
intervalPacketsOf(allPackets, i) ==
    LET intervalStart == allPackets[1].captureTime + i * intervalDuration
        intervalEnd   == intervalStart + intervalDuration
        Within(p)     == p.captureTime >= intervalStart /\ p.captureTime < intervalEnd
    IN SelectSeq(allPackets, Within)

\* A threshold that lets a window of exactly 5 packets through.
enoughPacketsFromFive(intervalPackets) == Len(intervalPackets) >= 5

\* Line 636.
enoughPackets(intervalPackets) == Len(intervalPackets) > 5

\* A loop that measures the first and the last interval of every call.
skipIntervalNever(i, numIntervals) == FALSE

\* Lines 619-624: skipFirstInterval and skipLastInterval, for the 0-based
\* interval i.
skipInterval(i, numIntervals) ==
    (i = 0 /\ numIntervals > 3) \/ (i = numIntervals - 1 /\ numIntervals > 3)

\* Lines 622-636: the intervals calculateMetrics is called for, from the
\* 0-based interval i on, each with its start and its packets.
RECURSIVE intervalLoop(_, _, _)
intervalLoop(allPackets, i, numIntervals) ==
    IF i >= numIntervals THEN <<>>
    ELSE LET intervalPackets == intervalPacketsOf(allPackets, i)
         IN (IF ~skipInterval(i, numIntervals) /\ enoughPackets(intervalPackets)
             THEN << [ intervalStart |-> allPackets[1].captureTime + i * intervalDuration,
                       packets       |-> intervalPackets ] >>
             ELSE <<>>)
            \o intervalLoop(allPackets, i + 1, numIntervals)

\* Lines 640-648.
intervalRow(id, intervalStart, intervalMetrics) ==
    [ call_id        |-> id,
      interval_start |-> intervalStart \div 1000,
      interval_end   |-> (intervalStart + intervalDuration) \div 1000,
      jitter         |-> intervalMetrics.avgJitter,
      latency        |-> intervalMetrics.avgLatency,
      packet_loss    |-> intervalMetrics.packetsLost,
      mos_score      |-> intervalMetrics.mosScore ]

\* Lines 637-651: the rows of the measured intervals; calculateMetrics throws
\* on an empty list and the catch of line 649 leaves no row.
RECURSIVE intervalRows(_, _)
intervalRows(measured, id) ==
    IF measured = <<>> THEN <<>>
    ELSE (IF Len(Head(measured).packets) = 0 THEN <<>>
          ELSE << intervalRow(id, Head(measured).intervalStart,
                              calculateMetrics(Head(measured).packets)) >>)
         \o intervalRows(Tail(measured), id)

\* Line 656.
supportsAudio(codec) ==
    Includes(codec, G711Text) \/ Includes(codec, MuLawText) \/ Includes(codec, PCMU)

\* Lines 661-662: the entries of the stream map, the longest stream first.
streamsBySize(rtpStreams) ==
    LET n    == Len(rtpStreams)
        cmp  == [i \in 1..n |-> [j \in 1..n |->
                    Len(rtpStreams[j].value) - Len(rtpStreams[i].value)]]
        perm == SortPerm(cmp, n)
    IN [k \in 1..n |-> rtpStreams[perm[k]]]

\* A store into an Int16Array.
ToInt16(x) == ((x + 32768) % 65536) - 32768

\* pcap-parser.ts 255-267.
RECURSIVE decodeG711Mulaw(_)
decodeG711Mulaw(packets) ==
    IF packets = <<>> THEN <<>>
    ELSE [ i \in 1..Len(Head(packets).payload) |->
             ToInt16(mulawToPcm(Head(packets).payload[i])) ]
         \o decodeG711Mulaw(Tail(packets))

\* setInt16(offset, sample, true) for each sample.
RECURSIVE SampleBytes(_)
SampleBytes(pcmData) ==
    IF pcmData = <<>> THEN <<>>
    ELSE LET u == (Head(pcmData) + 65536) % 65536
         IN <<u % 256, u \div 256>> \o SampleBytes(Tail(pcmData))

\* pcap-parser.ts 269-301, for one channel of 16 bits.
createWavFile(pcmData, sampleRate) ==
    LET dataSize == Len(pcmData) * 2
        fileSize == 44 + dataSize
    IN <<82, 73, 70, 70>> \o WriteUint32(fileSize - 8, TRUE) \o <<87, 65, 86, 69>>
         \o <<102, 109, 116, 32>> \o WriteUint32(16, TRUE) \o <<1, 0>> \o <<1, 0>>
         \o WriteUint32(sampleRate, TRUE) \o WriteUint32(sampleRate * 2, TRUE)
         \o <<2, 0>> \o <<16, 0>>
         \o <<100, 97, 116, 97>> \o WriteUint32(dataSize, TRUE)
         \o SampleBytes(pcmData)

Directions == <<"outbound", "inbound">>

\* What the storage does with an upload: it stores the file, answers with an
\* error (line 680), or the awaited call throws.
UploadResults == {"ok", "error", "throws"}

\* The uploads of an iteration that gets to none.
NoUpload == [ idx \in 1..2 |-> "error" ]

\* A loop that goes on to the second stream after an exception.
reachedDespiteThrow(streams, idx, uploads) == idx <= Min(Len(streams), 2)

\* Lines 664 and 701: the loop gets to the stream at idx: there is one, and
\* no exception has left the try block before.
reached(streams, idx, uploads) ==
    idx <= Min(Len(streams), 2) /\ (idx = 2 => uploads[1] # "throws")

\* Lines 664-682: the file uploaded for the stream at idx, if the loop gets
\* there and the upload succeeds.
uploadedFile(streams, idx, id, uploads) ==
    IF reached(streams, idx, uploads) /\ uploads[idx] = "ok"
    THEN << [ path |-> <<id, Directions[idx]>>,
              data |-> createWavFile(decodeG711Mulaw(streams[idx].value), 8000) ] >>
    ELSE <<>>

\* Lines 664-706 for the stream at idx, in the order of execution: the
\* decoding, the upload, and the status the row is updated with, 'completed'
\* at line 689 or 'failed' in the catch of line 701.
audioSteps(streams, idx, uploads) ==
    IF ~reached(streams, idx, uploads) THEN <<>>
    ELSE << <<"decode", Directions[idx]>>, <<"upload", Directions[idx]>> >>
           \o (IF uploads[idx] = "ok" THEN << <<"status", "completed">> >>
               ELSE IF uploads[idx] = "throws" THEN << <<"status", "failed">> >>
               ELSE <<>>)

\* Lines 684-706: the row's audio fields after the loop over the streams.  An
\* upload that answers with an error leaves them as they are; the status is
\* the one written last.
audioOutcome(outbound, inbound, steps) ==
    [ files |-> outbound \o inbound,
      outbound_audio_path |-> IF outbound # <<>> THEN Some(outbound[1].path) ELSE Undefined,
      inbound_audio_path  |-> IF inbound # <<>> THEN Some(inbound[1].path) ELSE Undefined,
      audio_extraction_status |->
          LET written == { k \in 1..Len(steps) : steps[k][1] = "status" }
          IN IF written = {} THEN "pending"
             ELSE steps[CHOOSE k \in written : \A l \in written : l <= k][2],
      steps |-> steps ]

audioOfStreams(streams, id, uploads) ==
    audioOutcome(uploadedFile(streams, 1, id, uploads),
                 uploadedFile(streams, 2, id, uploads),
                 audioSteps(streams, 1, uploads) \o audioSteps(streams, 2, uploads))

\* Lines 659-705.
extractAudio(rtpStreams, id, uploads) ==
    audioOfStreams(streamsBySize(rtpStreams), id, uploads)

\* Lines 711-718.
Unsupported ==
    [ files |-> <<>>, outbound_audio_path |-> Undefined,
      inbound_audio_path |-> Undefined, audio_extraction_status |-> "unsupported",
      steps |-> << <<"status", "unsupported">> >> ]

NothingDone ==
    [ rows |-> <<>>, intervals |-> <<>>, files |-> <<>>, metricsCalls |-> <<>>,
      audioLog |-> <<>> ]

\* Lines 579-599 with the updates of lines 689-696 and 712-718: the call's row.
callRow(id, callId, codec, callMetrics, first, audio) ==
    [ id               |-> id,
      call_id          |-> callId,
      start_time       |-> callMetrics.startTime,
      end_time         |-> callMetrics.endTime,
      duration         |-> callMetrics.duration,
      codec            |-> codec,
      packets_sent     |-> callMetrics.packetsSent,
      packets_received |-> callMetrics.packetsReceived,
      packets_lost     |-> callMetrics.packetsLost,
      avg_jitter       |-> callMetrics.avgJitter,
      max_jitter       |-> callMetrics.maxJitter,
      avg_latency      |-> callMetrics.avgLatency,
      max_latency      |-> callMetrics.maxLatency,
      mos_score        |-> callMetrics.mosScore,
      source_ip        |-> first.sourceIp,
      dest_ip          |-> first.destIp,
      audio_extraction_status |-> audio.audio_extraction_status,
      outbound_audio_path |-> audio.outbound_audio_path,
      inbound_audio_path  |-> audio.inbound_audio_path ]

\* Lines 555-718 for a call whose row was inserted: what it adds.
measuredCall(id, callId, callData, codec, allPackets, measured, audio) ==
    [ rows      |-> << callRow(id, callId, codec, calculateMetrics(allPackets),
                               IF Len(callData.sipMessages) > 0
                               THEN callData.sipMessages[1] ELSE allPackets[1],
                               audio) >>,
      intervals |-> intervalRows(measured, id),
      files     |-> audio.files,
      metricsCalls |-> <<Len(allPackets)>>
                         \o [ k \in 1..Len(measured) |-> Len(measured[k].packets) ],
      audioLog  |-> [ k \in 1..Len(audio.steps) |->
                        [ call |-> id, step |-> audio.steps[k] ] ] ]

\* Lines 555-718 for the merged, sorted packets of a call with media.
processPackets(id, callId, callData, codec, allPackets, insertFails, uploads) ==
    IF Len(allPackets) = 0
    THEN [ NothingDone EXCEPT !.metricsCalls = <<0>> ]
    ELSE IF insertFails
    THEN [ NothingDone EXCEPT !.metricsCalls = <<Len(allPackets)>> ]
    ELSE measuredCall(id, callId, callData, codec, allPackets,
                      intervalLoop(allPackets, 0, numIntervalsOf(allPackets)),
                      IF supportsAudio(codec)
                      THEN extractAudio(callData.rtpStreams, id, uploads)
                      ELSE Unsupported)

\* Lines 549-723, one iteration: the rows, interval rows and files the call
\* adds, and the packet counts calculateMetrics was called with.  id is the id
\* the database gives the call's row; the updates of the row (lines 689-696,
\* 712-718) are taken to reach the table.
processCall(callId, callData, id, insertFails, uploads) ==
    IF noMedia(callData) THEN NothingDone
    ELSE processPackets(id, callId, callData, codecOf(callData.sipMessages),
                        sortByCaptureTime(combineStreams(callData.rtpStreams)),
                        insertFails, uploads)

(***************************************************************************)
(* Inputs of SpecJob: up to MaxFiles files out of a pool of captures.  Two *)
(* calls between the same hosts a second apart, three streams, a capture   *)
(* of a foreign format, and a capture cut short inside its last frame;     *)
(* each file's download either succeeds or fails.                          *)
(***************************************************************************)
HostC == <<192, 168, 0, 9>>

\* "INVITE x SIP/2.0\r\nCall-ID: " callId "\r\n\r\n"
InviteText(callId) ==
    INVITE \o <<32, 120, 32>> \o SIP20 \o <<13, 10>>
        \o <<67, 97, 108, 108, 45, 73, 68, 58, 32>> \o callId \o CRLFCRLF

\* "SIP/2.0 200 OK\r\nCall-ID: " callId "\r\n\r\n"
OkText(callId) ==
    SIP20 \o <<32, 50, 48, 48, 32, 79, 75, 13, 10>>
        \o <<67, 97, 108, 108, 45, 73, 68, 58, 32>> \o callId \o CRLFCRLF

SipFrame(sec, usec, sourceIp, destIp, text) ==
    [ sec |-> sec, usec |-> usec,
      data |-> UdpFrame(sourceIp, 5060, destIp, 5060, text) ]

RtpFrame(sec, usec, sourceIp, destIp, sequenceNumber, ssrc) ==
    [ sec |-> sec, usec |-> usec,
      data |-> UdpFrame(sourceIp, 4000, destIp, 4002,
                        RtpDatagram(0, sequenceNumber, 160 * sequenceNumber, ssrc,
                                    <<255, 0>>)) ]

CallA == <<97>>         \* "a"
CallB == <<98>>         \* "b"
CallC == <<99>>         \* "c"
CallRtp11 == <<114, 116, 112, 45, 49, 49>>      \* "rtp-11"
CallTab == <<9>>        \* a tab: the Call-ID header has no value

\* "v=0\r\nm=audio 4000 RTP/AVP 0\r\na=rtpmap:0 PCMU/8000"
SdpPcmu ==
    <<118, 61, 48, 13, 10, 109, 61, 97, 117, 100, 105, 111, 32, 52, 48, 48, 48, 32, 82, 84, 80, 47, 65, 86, 80, 32, 48, 13, 10, 97, 61, 114, 116, 112, 109, 97, 112, 58, 48, 32, 80, 67, 77, 85, 47, 56, 48, 48, 48>>

\* "v=0\r\nm=audio 4002 RTP/AVP 8\r\na=rtpmap:8 PCMA/8000"
SdpPcma ==
    <<118, 61, 48, 13, 10, 109, 61, 97, 117, 100, 105, 111, 32, 52, 48, 48, 50, 32, 82, 84, 80, 47, 65, 86, 80, 32, 56, 13, 10, 97, 61, 114, 116, 112, 109, 97, 112, 58, 56, 32, 80, 67, 77, 65, 47, 56, 48, 48, 48>>

\* CaptureA: call a is offered with mu-law between HostA and HostB; stream 9.
CaptureA ==
    WriteCapture("big",
        << SipFrame(1, 0, HostA, HostB, InviteText(CallA) \o SdpPcmu),
           RtpFrame(1, 20000, HostA, HostB, 7, 9),
           RtpFrame(1, 40000, HostA, HostB, 8, 9) >>)

\* CaptureB: call b is offered with A-law between the same hosts one second
\* later; stream 10, a later packet of stream 9, and stream 13 half way
\* between the two offers.
CaptureB ==
    WriteCapture("little",
        << SipFrame(2, 0, HostB, HostA, InviteText(CallB) \o SdpPcma),
           RtpFrame(1, 600000, HostB, HostA, 1, 10),
           RtpFrame(1, 60000, HostA, HostB, 9, 9),
           RtpFrame(1, 500000, HostA, HostB, 1, 13) >>)

CaptureForeign ==
    WriteCapture("other",
        << SipFrame(1, 0, HostA, HostB, InviteText(CallC)),
           RtpFrame(1, 20000, HostA, HostB, 1, 12) >>)

\* CaptureD: stream 11 from a third host, a response of call a, and a call
\* whose Call-ID is "rtp-11".
CaptureD ==
    WriteCapture("big",
        << RtpFrame(1, 30000, HostC, HostB, 1, 11),
           SipFrame(1, 500000, HostB, HostA, OkText(CallA)),
           SipFrame(1, 10000, HostA, HostB, InviteText(CallRtp11)) >>)

\* CaptureE: an INVITE whose Call-ID header has no value, and stream 14 sent
\* by HostA to itself.
CaptureE ==
    WriteCapture("big",
        << SipFrame(1, 30000, HostA, HostB, InviteText(CallTab)),
           RtpFrame(1, 0, HostA, HostA, 1, 14) >>)

\* CaptureF: seven packets of stream 15 within 120 ms, and call c offered ten
\* seconds after the first of them.
CaptureF ==
    WriteCapture("big",
        << RtpFrame(1, 20000, HostA, HostC, 1, 15),
           RtpFrame(1, 40000, HostA, HostC, 2, 15),
           RtpFrame(1, 60000, HostA, HostC, 3, 15),
           RtpFrame(1, 80000, HostA, HostC, 4, 15),
           RtpFrame(1, 100000, HostA, HostC, 5, 15),
           RtpFrame(1, 120000, HostA, HostC, 6, 15),
           RtpFrame(1, 140000, HostA, HostC, 7, 15),
           SipFrame(11, 20000, HostA, HostC, InviteText(CallC)) >>)

CaptureCut == SubSeq(CaptureA, 1, Len(CaptureA) - 5)

\* An RTP frame with the given payload.
RtpFrameOf(sec, usec, sourceIp, destIp, sequenceNumber, ssrc, payload) ==
    [ sec |-> sec, usec |-> usec,
      data |-> UdpFrame(sourceIp, 4000, destIp, 4002,
                        RtpDatagram(0, sequenceNumber, 160 * sequenceNumber, ssrc,
                                    payload)) ]

\* count frames of one stream, 20 ms apart, from the given second on.
Burst(sec, sourceIp, destIp, firstSeq, ssrc, count) ==
    [ k \in 1..count |->
        RtpFrame(sec, 20000 * (k - 1), sourceIp, destIp, firstSeq + k - 1, ssrc) ]

\* A stream of 20 seconds between hosts B and C: 6 packets in its first five
\* seconds, 6 in the next, 5 in the third, 6 in the fourth and one packet
\* exactly 20 seconds after the first.  Before it one packet of a second
\* stream, from B to A, with a payload of eight bytes.
CaptureG ==
    WriteCapture("big",
        << RtpFrameOf(1, 30000, HostB, HostA, 1, 17, <<255, 0, 255, 0, 255, 0, 255, 0>>) >>
        \o Burst(20, HostB, HostC, 1, 16, 6)
        \o Burst(25, HostB, HostC, 7, 16, 6)
        \o Burst(30, HostB, HostC, 13, 16, 5)
        \o Burst(35, HostB, HostC, 18, 16, 6)
        \o << RtpFrame(40, 0, HostB, HostC, 24, 16) >>)

PoolCaptures ==
    {CaptureA, CaptureB, CaptureForeign, CaptureD, CaptureCut, CaptureE, CaptureF,
     CaptureG}

\* The bytes of an object whose download fails are never read (lines 462-465), so
\* two captures stand for all objects that cannot be downloaded.
PoolFiles ==
    { [ downloads |-> TRUE, bytes |-> b ] : b \in PoolCaptures }
        \cup { [ downloads |-> FALSE, bytes |-> b ] : b \in {CaptureA, CaptureB} }

FileLists == UNION { [1..n -> PoolFiles] : n \in 0..MaxFiles }

(***************************************************************************)
(* SpecJob: the job from its list of files to the matched call map.        *)
(***************************************************************************)
InitJob ==
    /\ pc = "files"
    /\ pcapFiles \in FileLists
    /\ fileIdx = 1
    /\ allRtpPackets = <<>>
    /\ allSipMessages = <<>>
    /\ callMap = <<>>
    /\ streamIdx = 0
    /\ callIdx = 1
    /\ call_metrics = <<>>
    /\ intervalMetricsToInsert = <<>>
    /\ audioFiles = <<>>
    /\ metricsCalls = <<>>
    /\ audioLog = <<>>
    /\ IdleMetrics
    /\ IdleDecode
    /\ IdlePcap
    /\ IdleMulaw

\* Lines 454-486: one iteration of the per-file loop.
ParseFile ==
    /\ pc = "files"
    /\ fileIdx <= Len(pcapFiles)
    /\ LET after == collectFile(allRtpPackets, allSipMessages, pcapFiles[fileIdx])
       IN /\ allRtpPackets' = after.allRtpPackets
          /\ allSipMessages' = after.allSipMessages
    /\ fileIdx' = fileIdx + 1
    /\ UNCHANGED <<pc, pcapFiles, callMap, streamIdx, processVars,
                   metricsVars, decodeVars, pcapVars, mulawVars>>

\* Lines 490-504: the per-file loop is over; the messages are grouped.
GroupByCallId ==
    /\ pc = "files"
    /\ fileIdx > Len(pcapFiles)
    /\ callMap' = groupByCallId(<<>>, allSipMessages)
    /\ streamIdx' = 1
    /\ pc' = "match"
    /\ UNCHANGED <<pcapFiles, fileIdx, allRtpPackets, allSipMessages, processVars,
                   metricsVars, decodeVars, pcapVars, mulawVars>>

\* Lines 507-541: one iteration of the matching loop.
MatchStream ==
    /\ pc = "match"
    /\ streamIdx <= Len(allRtpPackets)
    /\ callMap' = matchStream(callMap, allRtpPackets[streamIdx].key,
                              allRtpPackets[streamIdx].value)
    /\ streamIdx' = streamIdx + 1
    /\ UNCHANGED <<pc, pcapFiles, fileIdx, allRtpPackets, allSipMessages, processVars,
                   metricsVars, decodeVars, pcapVars, mulawVars>>

\* Lines 608, 640 and 677-696: what one iteration leaves behind.
StoreCall(done) ==
    /\ call_metrics' = call_metrics \o done.rows
    /\ intervalMetricsToInsert' = intervalMetricsToInsert \o done.intervals
    /\ audioFiles' = audioFiles \o done.files
    /\ metricsCalls' = metricsCalls \o done.metricsCalls
    /\ audioLog' = audioLog \o done.audioLog

\* Lines 549-723: one iteration of the loop over the calls.  Whether the
\* insert of the row succeeds is the database's choice, and what becomes of
\* each upload the storage's; after a failed insert nothing is uploaded.
ProcessCall ==
    /\ pc = "match"
    /\ streamIdx > Len(allRtpPackets)
    /\ callIdx <= Len(callMap)
    /\ \/ StoreCall(processCall(callMap[callIdx].key, callMap[callIdx].value,
                                Len(call_metrics) + 1, TRUE, NoUpload))
       \/ \E uploads \in [1..2 -> UploadResults] :
             StoreCall(processCall(callMap[callIdx].key, callMap[callIdx].value,
                                   Len(call_metrics) + 1, FALSE, uploads))
    /\ callIdx' = callIdx + 1
    /\ UNCHANGED <<pc, pcapFiles, fileIdx, allRtpPackets, allSipMessages, callMap,
                   streamIdx, metricsVars, decodeVars, pcapVars, mulawVars>>

NextJob == ParseFile \/ GroupByCallId \/ MatchStream \/ ProcessCall

SpecJob == InitJob /\ [][NextJob]_vars

Correlated == pc = "match" /\ streamIdx > Len(allRtpPackets)

HoldsStream(call, ssrc) == MapHas(call.value.rtpStreams, ssrc)

\* C2: whatever was collected, every stream (all packets of one ssrc) is held
\* by at most one call of the call map, during and after the matching.
C2_StreamInAtMostOneCall ==
    \A i, j \in 1..Len(callMap) :
        \A s \in 1..Len(allRtpPackets) :
            (HoldsStream(callMap[i], allRtpPackets[s].key)
                /\ HoldsStream(callMap[j], allRtpPackets[s].key)) => i = j

\* Two calls with an INVITE between the hosts of the streams, each holding a
\* stream once the matching is over.
C2_Witness ==
    /\ Correlated
    /\ \E i, j \in 1..Len(callMap) :
          /\ i # j
          /\ findInvite(callMap[i].value.sipMessages) # Undefined
          /\ findInvite(callMap[j].value.sipMessages) # Undefined
          /\ callMap[i].value.rtpStreams # <<>>
          /\ callMap[j].value.rtpStreams # <<>>

\* One iteration of the matching loop: the stream it looks at.
MatchStep == pc = "match" /\ streamIdx <= Len(allRtpPackets) /\ streamIdx' = streamIdx + 1

StreamAt(s) == allRtpPackets[s]

\* The calls that qualify for a stream: their first INVITE matches the
\* addresses of the stream's first packet and is less than 10 seconds from it.
Qualifying(calls, firstPacket) ==
    { i \in 1..Len(calls) :
        LET invite == findInvite(calls[i].value.sipMessages)
        IN /\ invite # Undefined
           /\ ipMatch(invite[1], firstPacket)
           /\ timeDiffOf(invite[1], firstPacket) < 10000 }

DiffTo(calls, i, firstPacket) ==
    timeDiffOf(findInvite(calls[i].value.sipMessages)[1], firstPacket)

\* C15: in every iteration of the matching loop where some call qualifies for
\* the stream, the stream is attached to the qualifying call with the smallest
\* time difference, the first of them in call-map order when several share it.
C15_ClosestQualifyingCallGetsStream ==
    [][ MatchStep =>
          LET stream == StreamAt(streamIdx)
              first  == stream.value[1]
              among  == Qualifying(callMap, first)
          IN among # {} =>
               LET best == CHOOSE i \in among :
                              \A k \in among :
                                  \/ DiffTo(callMap, i, first) < DiffTo(callMap, k, first)
                                  \/ /\ DiffTo(callMap, i, first) = DiffTo(callMap, k, first)
                                     /\ i <= k
               IN /\ Len(callMap') = Len(callMap)
                  /\ callMap'[best].key = callMap[best].key
                  /\ MapHas(callMap'[best].value.rtpStreams, stream.key)
                  /\ MapGet(callMap'[best].value.rtpStreams, stream.key) = stream.value
      ]_vars

UnorderedPair(x, y) == {x, y}

\* C16: for every stream and every call's INVITE the matching compares it
\* with, the address match holds exactly when the stream's first packet and
\* the INVITE have the same unordered pair of addresses.
C16_AddressMatchIsPairEquality ==
    pc = "match" =>
        \A s \in 1..Len(allRtpPackets) : \A i \in 1..Len(callMap) :
            LET invite == findInvite(callMap[i].value.sipMessages)
                first  == StreamAt(s).value[1]
            IN invite # Undefined =>
                 (ipMatch(invite[1], first)
                    <=> UnorderedPair(first.sourceIp, first.destIp)
                          = UnorderedPair(invite[1].sourceIp, invite[1].destIp))

\* C17: in every iteration of the matching loop where no call qualifies for
\* the stream, the call map gains exactly one call, keyed "rtp-<ssrc>", without
\* signaling messages and holding that one stream, and every call there was
\* stays as it was.
C17_UnmatchedStreamGetsNewCall ==
    [][ MatchStep =>
          LET stream == StreamAt(streamIdx)
          IN Qualifying(callMap, stream.value[1]) = {} =>
               callMap' = Append(callMap,
                            [ key   |-> RtpPrefix \o NumberText(stream.key),
                              value |-> [ sipMessages |-> <<>>,
                                          rtpStreams  |-> <<stream>> ] ])
      ]_vars


\* The loop over the calls has gone through the call map.
Processed == pc = "match" /\ streamIdx > Len(allRtpPackets) /\ callIdx > Len(callMap)

FilesOfRow(row) ==
    LET OfRow(file) == file.path[1] = row.id
    IN SelectSeq(audioFiles, OfRow)

\* C12: every call with media whose negotiated encoding is not G.711 mu-law
\* (G.711 A-law and 'Unknown' among them) has audio outcome 'unsupported', no
\* audio path and no audio file; a call has an audio file only when its
\* negotiated encoding is G.711 mu-law.
C12_OnlyMulawIsDecoded ==
    \A r \in 1..Len(call_metrics) :
        LET row == call_metrics[r]
        IN /\ row.codec # G711Mulaw =>
                /\ row.audio_extraction_status = "unsupported"
                /\ row.outbound_audio_path = Undefined
                /\ row.inbound_audio_path = Undefined
                /\ FilesOfRow(row) = <<>>
           /\ FilesOfRow(row) # <<>> => row.codec = G711Mulaw

\* C14: in every job, calculateMetrics is handed at least one packet each
\* time it is called, for a whole call and for an interval alike.
C14_MetricsNeverOnEmptyList ==
    \A k \in 1..Len(metricsCalls) : metricsCalls[k] > 0

\* A job that skipped a call without media, measured a call and one of its
\* intervals.
C14_Witness ==
    /\ Processed
    /\ \E i \in 1..Len(callMap) : noMedia(callMap[i].value)
    /\ intervalMetricsToInsert # <<>>
    /\ Len(metricsCalls) >= 2

\* What parsePcapFile gives for each capture of the pool.
ParsedPool == [ b \in PoolCaptures |-> parsePcapFile(b) ]

\* A file contributes when its download and its parse both succeed.
Contributes(file) == file.downloads /\ ParsedPool[file.bytes].status = "done"

RECURSIVE RecordsOfFiles(_, _)
RecordsOfFiles(files, field) ==
    IF files = <<>> THEN <<>>
    ELSE (IF Contributes(Head(files)) THEN ParsedPool[Head(files).bytes][field]
          ELSE <<>>)
            \o RecordsOfFiles(Tail(files), field)

PacketsOfStream(packets, ssrc) ==
    LET OfStream(packet) == packet.ssrc = ssrc
    IN SelectSeq(packets, OfStream)

HeldByItsCall(msg) ==
    /\ MapHas(callMap, msg.callId)
    /\ \E k \in 1..Len(MapGet(callMap, msg.callId).sipMessages) :
          MapGet(callMap, msg.callId).sipMessages[k] = msg

\* C28: once the messages are grouped, during and after the matching of the
\* streams, every parsed signaling message is still held by the call keyed by
\* its Call-ID, also when a Call-ID reads 'rtp-<ssrc>'.
C28_SignalingMessagesKept ==
    pc = "match" => \A i \in 1..Len(allSipMessages) : HeldByItsCall(allSipMessages[i])

\* The merged packet list of the call a row of call_metrics was made from
\* (the call map does not change while the calls are processed).
MergedPackets(row) ==
    sortByCaptureTime(combineStreams(MapGet(callMap, row.call_id).rtpStreams))

\* The packet's capture time lies in window i of a call that starts at start.
InWindow(packet, start, i) ==
    /\ packet.captureTime >= start + i * intervalDuration
    /\ packet.captureTime < start + (i + 1) * intervalDuration

WindowCount(allPackets, i) ==
    Cardinality({ k \in 1..Len(allPackets) :
                    InWindow(allPackets[k], allPackets[1].captureTime, i) })

\* interval_start of window i, as the rows carry it.
WindowStart(allPackets, i) == (allPackets[1].captureTime + i * intervalDuration) \div 1000

\* The windows excluded by the first/last policy.
Excluded(i, numIntervals) == numIntervals > 3 /\ (i = 0 \/ i = numIntervals - 1)

\* interval_start of the call's interval rows, in the order they were pushed.
IntervalStartsOf(row) ==
    LET OfCall(r) == r.call_id = row.id
        rows == SelectSeq(intervalMetricsToInsert, OfCall)
    IN [ k \in 1..Len(rows) |-> rows[k].interval_start ]

InExactlyOneWindow(allPackets, numIntervals) ==
    \A k \in 1..Len(allPackets) :
        Cardinality({ i \in 0..(numIntervals - 1) :
                        InWindow(allPackets[k], allPackets[1].captureTime, i) }) = 1

\* C26: every packet of a call's merged list lies in exactly one of the
\* call's windows 0..numIntervals-1, also when the span from the first to the
\* last packet is a multiple of 5,000,000 or zero.
C26_WindowsCoverEveryPacket ==
    \A c \in 1..Len(call_metrics) :
        InExactlyOneWindow(MergedPackets(call_metrics[c]),
                           numIntervalsOf(MergedPackets(call_metrics[c])))

EmitsAboveFive(allPackets, numIntervals, starts) ==
    LET due == { i \in 0..(numIntervals - 1) :
                   ~Excluded(i, numIntervals) /\ WindowCount(allPackets, i) > 5 }
    IN /\ Len(starts) = Cardinality(due)
       /\ { starts[k] : k \in 1..Len(starts) } = { WindowStart(allPackets, i) : i \in due }
       /\ \A k \in 1..(Len(starts) - 1) : starts[k] < starts[k + 1]

\* C22: for every call with a row, the interval rows are exactly those of the
\* windows, not excluded by the first/last policy, that hold more than 5
\* packets, one row each, in ascending window order.
C22_IntervalIffMoreThanFivePackets ==
    \A c \in 1..Len(call_metrics) :
        EmitsAboveFive(MergedPackets(call_metrics[c]),
                       numIntervalsOf(MergedPackets(call_metrics[c])),
                       IntervalStartsOf(call_metrics[c]))

HasWindowsAroundFive(allPackets, numIntervals, starts) ==
    /\ Len(starts) >= 1
    /\ \E i, j \in 1..(numIntervals - 2) :
          WindowCount(allPackets, i) = 6 /\ WindowCount(allPackets, j) = 5

\* A processed call with a window of 6 packets, which has a row, and a window
\* of exactly 5, which has none.
C22_Witness ==
    \E c \in 1..Len(call_metrics) :
        HasWindowsAroundFive(MergedPackets(call_metrics[c]),
                             numIntervalsOf(MergedPackets(call_metrics[c])),
                             IntervalStartsOf(call_metrics[c]))

FirstAndLastByPolicy(allPackets, numIntervals, starts) ==
    LET emitted == { starts[k] : k \in 1..Len(starts) }
        ends    == {0, numIntervals - 1} \cap (0..(numIntervals - 1))
    IN IF numIntervals > 3
       THEN \A i \in ends : WindowStart(allPackets, i) \notin emitted
       ELSE \A i \in ends :
               WindowStart(allPackets, i) \in emitted <=> WindowCount(allPackets, i) > 5

\* C23: a call of more than 3 windows has no interval row for its first and
\* none for its last window; a call of 3 or fewer has a row for its first
\* and for its last window whenever that window holds more than 5 packets.
C23_FirstAndLastWindowPolicy ==
    \A c \in 1..Len(call_metrics) :
        FirstAndLastByPolicy(MergedPackets(call_metrics[c]),
                             numIntervalsOf(MergedPackets(call_metrics[c])),
                             IntervalStartsOf(call_metrics[c]))

FullEndsSkipped(allPackets, numIntervals, starts) ==
    /\ numIntervals > 3
    /\ WindowCount(allPackets, 0) > 5
    /\ WindowCount(allPackets, numIntervals - 1) > 5
    /\ Len(starts) >= 1

FullFirstKept(allPackets, numIntervals, starts) ==
    /\ numIntervals \in 1..3
    /\ WindowCount(allPackets, 0) > 5
    /\ Len(starts) >= 1

\* A call of 4 windows whose first and last window hold 6 packets each, and a
\* call of one window with 7 packets, both processed.
C23_Witness ==
    /\ \E c \in 1..Len(call_metrics) :
          FullEndsSkipped(MergedPackets(call_metrics[c]),
                          numIntervalsOf(MergedPackets(call_metrics[c])),
                          IntervalStartsOf(call_metrics[c]))
    /\ \E c \in 1..Len(call_metrics) :
          FullFirstKept(MergedPackets(call_metrics[c]),
                        numIntervalsOf(MergedPackets(call_metrics[c])),
                        IntervalStartsOf(call_metrics[c]))

\* The audio steps logged for the row with the given id, in order.
StepsOf(log, id) ==
    LET OfCall(e) == e.call = id
        entries == SelectSeq(log, OfCall)
    IN [ k \in 1..Len(entries) |-> entries[k].step ]

\* The uploaded objects of the row with the given id, in order.
ObjectsOf(files, id) ==
    LET OfCall(f) == f.path[1] = id
    IN SelectSeq(files, OfCall)

Terminal(status) == status \in {"failed", "unsupported"}

\* A row whose outcome is 'failed' or 'unsupported' stays as it is, and no
\* step and no object is added for it.
TerminalRowsKept ==
    \A c \in 1..Len(call_metrics) :
        Terminal(call_metrics[c].audio_extraction_status)
            => /\ Len(call_metrics') >= c
               /\ call_metrics'[c] = call_metrics[c]
               /\ StepsOf(audioLog', c) = StepsOf(audioLog, c)
               /\ ObjectsOf(audioFiles', c) = ObjectsOf(audioFiles, c)

\* Within the processing of a call, writing 'failed' or 'unsupported' is the
\* last audio step taken for it.
NothingAfterTerminal ==
    \A k, l \in 1..Len(audioLog) :
        (k < l /\ audioLog[k].call = audioLog[l].call /\ audioLog[k].step[1] = "status")
            => ~Terminal(audioLog[k].step[2])

\* C24: once a call's audio outcome is 'failed' or 'unsupported' it does not
\* change again within the job, and no further decoding or upload is done for
\* that call.
C24_FailedAndUnsupportedAreFinal ==
    /\ [][TerminalRowsKept]_vars
    /\ [](NothingAfterTerminal)

\* A mu-law call of two streams whose first upload threw: its second stream
\* was left alone; a call of an unknown codec was processed after it.
C24_Witness ==
    /\ Len(call_metrics) >= 2
    /\ call_metrics[1].audio_extraction_status = "failed"
    /\ Len(MapGet(callMap, call_metrics[1].call_id).rtpStreams) >= 2
    /\ StepsOf(audioLog, 1)
         = << <<"decode", "outbound">>, <<"upload", "outbound">>, <<"status", "failed">> >>
    /\ call_metrics[2].audio_extraction_status = "unsupported"

\* The payload bytes of a stream.
VolumeOf(stream) ==
    SumSeq([ k \in 1..Len(stream.value) |-> Len(stream.value[k].payload) ])

\* The file the decoding of the stream's own packets, in the order they were
\* collected, gives.
WavOf(stream) == createWavFile(decodeG711Mulaw(stream.value), 8000)

LargestFirst(streams, objects, id) ==
    /\ Len(objects) <= 2
    /\ \A f \in 1..Len(objects) :
          /\ objects[f].path = <<id, "outbound">>
                => \E s \in 1..Len(streams) :
                      /\ objects[f].data = WavOf(streams[s])
                      /\ \A t \in 1..Len(streams) :
                            VolumeOf(streams[t]) <= VolumeOf(streams[s])
          /\ objects[f].path = <<id, "inbound">>
                => \E s, o \in 1..Len(streams) :
                      /\ s # o
                      /\ objects[f].data = WavOf(streams[s])
                      /\ \A t \in 1..Len(streams) :
                            VolumeOf(streams[t]) <= VolumeOf(streams[o])
                      /\ \A t \in 1..Len(streams) :
                            t # o => VolumeOf(streams[t]) <= VolumeOf(streams[s])

\* C25: a call has at most two audio files; the 'outbound' file is decoded
\* from the packets of the stream with the most payload bytes and the
\* 'inbound' file from those of the stream with the second most.
C25_LargestVolumeIsOutbound ==
    \A c \in 1..Len(call_metrics) :
        LargestFirst(MapGet(callMap, call_metrics[c].call_id).rtpStreams,
                     ObjectsOf(audioFiles, c), c)

(***************************************************************************)
(* SpecMulaw: mulawToPcm applied to every byte.                            *)
(***************************************************************************)
InitMulaw ==
    /\ pc = "mulaw"
    /\ mulawByte \in 0..255
    /\ pcmSample = <<>>
    /\ IdleMetrics
    /\ IdleDecode
    /\ IdlePcap
    /\ IdleJob

MulawToPcm ==
    /\ pc = "mulaw"
    /\ pcmSample' = <<mulawToPcm(mulawByte)>>
    /\ pc' = "sample"
    /\ UNCHANGED <<mulawByte, metricsVars, decodeVars, pcapVars, jobVars>>

NextMulaw == MulawToPcm

SpecMulaw == InitMulaw /\ [][NextMulaw]_vars

\* The bits of the complemented byte, most significant first.
ComplementBits(b) == [k \in 0..7 |-> 1 - ((b \div 2 ^ k) % 2)]

\* C13: the sample is the G.711 expansion of the complemented byte, with sign
\* bit 7, exponent bits 6-4 and mantissa bits 3-0; it fits 16 signed bits;
\* 0xFF gives 0 and 0x00 gives -32124.
C13_MulawExpansion ==
    pc = "sample" =>
        LET bit      == ComplementBits(mulawByte)
            exponent == 4 * bit[6] + 2 * bit[5] + bit[4]
            mantissa == 8 * bit[3] + 4 * bit[2] + 2 * bit[1] + bit[0]
            magnitude == (8 * mantissa + 132) * 2 ^ exponent - 132
        IN /\ pcmSample[1] = IF bit[7] = 1 THEN -magnitude ELSE magnitude
           /\ pcmSample[1] \in -32768..32767
           /\ mulawByte = 255 => pcmSample[1] = 0
           /\ mulawByte = 0 => pcmSample[1] = -32124

C13_Witness == pc = "sample" /\ mulawByte = 0 /\ pcmSample = <<-32124>>

====
